---------------------------- MODULE Spec2Model ----------------------------
(***************************************************************************)
(* OpenClaw Deploy: the security-level catalog, the config renderer, the   *)
(* permission setter, the post-deployment security audit, its auto-fix,    *)
(* and the init pipeline that sequences them.                              *)
(*                                                                         *)
(* Modelling conventions                                                   *)
(*   - a JavaScript string is a sequence of one-character strings where    *)
(*     its length or its parse matters (tokens, option values), and a TLA+ *)
(*     string where only its identity matters (check ids, enum values);    *)
(*   - an optional object key is a record field that may be missing from   *)
(*     the record's DOMAIN;                                                *)
(*   - a thrown exception is an outcome value: the operator that models    *)
(*     the throwing function returns [threw |-> TRUE, ...];                *)
(*   - a rendered file is the list of its lines, each line a list of       *)
(*     strings: fixed text as one string, a secret character by character. *)
(***************************************************************************)
EXTENDS Integers, Sequences, FiniteSets, TLC

VARIABLES
    pc,         \* control position of the running operation
    opts,       \* InitOptions handed to runInit
    isWin,      \* platform() === 'win32'
    config,     \* the DeploymentConfig in use
    secrets,    \* the GeneratedSecrets in use
    disk,       \* the install directory on disk
    files,      \* GeneratedFiles the renderer returned last
    securityLevels, \* the renderer's module-level cache of the catalog
    calls,      \* the direct generateOpenClawConfig calls made so far
    written,    \* the text this run has written to each file of the directory
    applied,    \* the direct setSecurePermissions applications made so far
    report,     \* the AuditReport the caller holds
    inResults,  \* argument of a direct autoFixAuditResults call
    outResults, \* value a direct autoFixAuditResults call returned
    verified,   \* value the last direct verifyPermissions call returned
    log,        \* the stages runInit has gone through, in order
    docker,     \* outcome of ContainerManager.start / waitForHealthy
    result,     \* the DeploymentResult handed to printSuccess
    tampered,   \* whether another process has changed the install directory
    wait,       \* the waitForHealthy call under way: its clock, deadline and checks
    env         \* the detectEnvironment call under way: the host and its probes

vars == <<pc, opts, isWin, config, secrets, disk, files, securityLevels, calls,
          written, applied, report, inResults, outResults, verified, log, docker, result,
          tampered, wait, env>>

---------------------------------------------------------------------------
(* Bounds of the model *)

\* longest gateway token (in hex characters) handed to the audit directly
MaxTokenLen == 66

\* longest result list handed to autoFixAuditResults directly
MaxResults == 2

\* most generateOpenClawConfig calls made in one process
MaxCalls == 2

\* most setSecurePermissions applications made in a row on one directory
MaxApplications == 2

---------------------------------------------------------------------------
(* Small helpers *)

None == [none |-> TRUE]

\* no file written yet
NoTexts == [n \in {} |-> <<>>]

Range(s) == {s[i] : i \in 1..Len(s)}

---------------------------------------------------------------------------
(* Security level catalog: src/unnamed/part_005 (security/levels.ts) *)

SECURITY_LEVELS ==
    [L1 |-> [name |-> "Solo / Local",
             gateway |-> [bind |-> "loopback", authMode |-> "token"],
             channels |-> [dmPolicy |-> "pairing", groupPolicy |-> "allowlist",
                           requireMention |-> FALSE],
             sandbox |-> [mode |-> "off", scope |-> "shared", workspaceAccess |-> "rw"],
             tools |-> [deny |-> <<"exec", "process">>],
             docker |-> [readOnlyRoot |-> FALSE, capDrop |-> <<>>, capAdd |-> <<>>,
                         securityOpt |-> <<>>, pidsLimit |-> 0,
                         memory |-> "", memorySwap |-> "", cpus |-> "",
                         user |-> "", tmpfs |-> <<>>],
             logging |-> [redactSensitive |-> "tools"],
             discovery |-> [mdnsMode |-> "minimal"],
             filePermissions |-> [directory |-> <<"7", "0", "0">>,
                                  config |-> <<"6", "0", "0">>,
                                  credentials |-> <<"6", "0", "0">>]],
     L2 |-> [name |-> "Team / Shared",
             gateway |-> [bind |-> "loopback", authMode |-> "token"],
             channels |-> [dmPolicy |-> "pairing", groupPolicy |-> "allowlist",
                           requireMention |-> TRUE],
             sandbox |-> [mode |-> "non-main", scope |-> "agent", workspaceAccess |-> "rw"],
             tools |-> [deny |-> <<"browser", "canvas", "nodes", "cron", "exec", "process">>],
             docker |-> [readOnlyRoot |-> TRUE, capDrop |-> <<"ALL">>, capAdd |-> <<"CHOWN", "SETUID", "SETGID">>,
                         securityOpt |-> <<"no-new-privileges">>, pidsLimit |-> 256,
                         memory |-> "1g", memorySwap |-> "2g", cpus |-> "2.0",
                         user |-> "1000:1000", tmpfs |-> <<"/tmp:size=100M">>],
             logging |-> [redactSensitive |-> "tools"],
             discovery |-> [mdnsMode |-> "minimal"],
             filePermissions |-> [directory |-> <<"7", "0", "0">>,
                                  config |-> <<"6", "0", "0">>,
                                  credentials |-> <<"6", "0", "0">>]],
     L3 |-> [name |-> "Maximum",
             gateway |-> [bind |-> "loopback", authMode |-> "token"],
             channels |-> [dmPolicy |-> "pairing", groupPolicy |-> "allowlist",
                           requireMention |-> TRUE],
             sandbox |-> [mode |-> "all", scope |-> "session", workspaceAccess |-> "ro"],
             tools |-> [deny |-> <<"browser", "canvas", "nodes", "cron", "exec", "process">>, allow |-> <<"read", "sessions_list", "sessions_history">>],
             docker |-> [readOnlyRoot |-> TRUE, capDrop |-> <<"ALL">>, capAdd |-> <<"CHOWN", "SETUID", "SETGID">>,
                         securityOpt |-> <<"no-new-privileges">>, pidsLimit |-> 256,
                         memory |-> "512m", memorySwap |-> "2g", cpus |-> "2.0",
                         user |-> "1000:1000", tmpfs |-> <<"/tmp:size=100M">>],
             logging |-> [redactSensitive |-> "all"],
             discovery |-> [mdnsMode |-> "off"],
             filePermissions |-> [directory |-> <<"7", "0", "0">>,
                                  config |-> <<"6", "0", "0">>,
                                  credentials |-> <<"6", "0", "0">>]]]

SecurityLevel == {"L1", "L2", "L3"}

\* SECURITY_LEVELS[level] is undefined for a key the table does not hold
LevelDefined(level) == level \in DOMAIN SECURITY_LEVELS

\* (mutant) the definitions of L1 and L3 are handed out for each other
getSecurityLevel_Swapped(level) ==
    SECURITY_LEVELS[IF level = "L1" THEN "L3" ELSE IF level = "L3" THEN "L1" ELSE level]

getSecurityLevel(level) == SECURITY_LEVELS[level]

\* the table generator.ts carries for when the catalog module cannot be loaded
FALLBACK_LEVELS ==
    [L1 |-> [name |-> "Basic",
             gateway |-> [bind |-> "loopback", authMode |-> "token"],
             channels |-> [dmPolicy |-> "open", groupPolicy |-> "open",
                           requireMention |-> FALSE],
             sandbox |-> [mode |-> "off", scope |-> "shared", workspaceAccess |-> "rw"],
             tools |-> [deny |-> <<>>],
             docker |-> [readOnlyRoot |-> FALSE, capDrop |-> <<"NET_RAW">>, capAdd |-> <<>>,
                         securityOpt |-> <<>>, pidsLimit |-> 256,
                         memory |-> "2g", memorySwap |-> "2g", cpus |-> "2",
                         user |-> "1000:1000", tmpfs |-> <<"/tmp:size=256m">>],
             logging |-> [redactSensitive |-> "tools"],
             discovery |-> [mdnsMode |-> "full"],
             filePermissions |-> [directory |-> <<"0", "7", "5", "5">>,
                                  config |-> <<"0", "6", "4", "4">>,
                                  credentials |-> <<"0", "6", "0", "0">>]],
     L2 |-> [name |-> "Standard",
             gateway |-> [bind |-> "loopback", authMode |-> "token"],
             channels |-> [dmPolicy |-> "pairing", groupPolicy |-> "allowlist",
                           requireMention |-> TRUE],
             sandbox |-> [mode |-> "all", scope |-> "agent", workspaceAccess |-> "ro"],
             tools |-> [deny |-> <<"shell", "computer", "file_write">>],
             docker |-> [readOnlyRoot |-> TRUE, capDrop |-> <<"ALL">>, capAdd |-> <<"NET_BIND_SERVICE">>,
                         securityOpt |-> <<"no-new-privileges:true">>, pidsLimit |-> 128,
                         memory |-> "1g", memorySwap |-> "1g", cpus |-> "1",
                         user |-> "65534:65534", tmpfs |-> <<"/tmp:size=128m,noexec,nosuid">>],
             logging |-> [redactSensitive |-> "all"],
             discovery |-> [mdnsMode |-> "minimal"],
             filePermissions |-> [directory |-> <<"0", "7", "5", "0">>,
                                  config |-> <<"0", "6", "4", "0">>,
                                  credentials |-> <<"0", "6", "0", "0">>]],
     L3 |-> [name |-> "Maximum",
             gateway |-> [bind |-> "loopback", authMode |-> "token"],
             channels |-> [dmPolicy |-> "allowlist", groupPolicy |-> "allowlist",
                           requireMention |-> TRUE],
             sandbox |-> [mode |-> "all", scope |-> "session", workspaceAccess |-> "none"],
             tools |-> [deny |-> <<"shell", "computer", "file_write", "file_read", "browser">>, allow |-> <<"chat">>],
             docker |-> [readOnlyRoot |-> TRUE, capDrop |-> <<"ALL">>, capAdd |-> <<>>,
                         securityOpt |-> <<"no-new-privileges:true", "seccomp=default">>, pidsLimit |-> 64,
                         memory |-> "512m", memorySwap |-> "512m", cpus |-> "0.5",
                         user |-> "65534:65534", tmpfs |-> <<"/tmp:size=64m,noexec,nosuid,nodev">>],
             logging |-> [redactSensitive |-> "all"],
             discovery |-> [mdnsMode |-> "off"],
             filePermissions |-> [directory |-> <<"0", "7", "0", "0">>,
                                  config |-> <<"0", "6", "0", "0">>,
                                  credentials |-> <<"0", "4", "0", "0">>]]]

---------------------------------------------------------------------------
(* Numbers out of strings *)

OctDigit == [c \in {"0", "1", "2", "3", "4", "5", "6", "7"} |->
                CASE c = "0" -> 0 [] c = "1" -> 1 [] c = "2" -> 2 [] c = "3" -> 3
                  [] c = "4" -> 4 [] c = "5" -> 5 [] c = "6" -> 6 [] c = "7" -> 7]

\* parseInt(s, 8) of a string of octal digits
RECURSIVE ParseInt8Acc(_, _)
ParseInt8Acc(s, acc) ==
    IF s = <<>> \/ Head(s) \notin DOMAIN OctDigit THEN acc
    ELSE ParseInt8Acc(Tail(s), acc * 8 + OctDigit[Head(s)])

ParseInt8(s) == ParseInt8Acc(s, 0)

DigitChar == <<"0", "1", "2", "3", "4", "5", "6", "7", "8", "9">>

\* Number.prototype.toString(radix) of a non-negative integer, radix <= 10
RECURSIVE NumToString(_, _)
NumToString(n, radix) ==
    IF n < radix THEN <<DigitChar[n + 1]>>
    ELSE Append(NumToString(n \div radix, radix), DigitChar[(n % radix) + 1])

HexChars == <<"0", "1", "2", "3", "4", "5", "6", "7", "8", "9",
              "a", "b", "c", "d", "e", "f">>

\* a string of n lowercase hex characters
HexString(n) == [i \in 1..n |-> HexChars[((i - 1) % 16) + 1]]

\* Array.prototype.join(sep) of an array of strings
RECURSIVE Join(_, _)
Join(parts, sep) ==
    IF parts = <<>> THEN <<>>
    ELSE IF Len(parts) = 1 THEN Head(parts)
    ELSE Head(parts) \o <<sep>> \o Join(Tail(parts), sep)

---------------------------------------------------------------------------
(* The install directory: src/src/core/security/permissions.ts *)

\* file-type bits of st_mode
S_IFDIR == 16384

S_IFREG == 32768

\* 0o777, the permission mask of `mode & 0o777`
PermMask == 511

\* the literals 0o700 and 0o600 verifyPermissions compares against
ExpectedDirMode == 448

ExpectedFileMode == 384

\* (mutant) the mode compared without masking the file-type bits off
AndPermMask_Unmasked(x) == x

\* x & 0o777 for a non-negative x
AndPermMask(x) == x % (PermMask + 1)

\* config.deployment.installDir of getDefaults
InstallDir == "~/.openclaw"

\* names that may sit in the install directory, in readdir order
DirOrder == <<".env", "Caddyfile", "docker-compose.yml", "openclaw.json">>

FileNames == Range(DirOrder)

\* entry.name.endsWith('.json') || entry.name.endsWith('.env')
IsConfigFile(name) == name \in {"openclaw.json", ".env"}

\* the owner's (or, for a directory of another user, the others') r and x bits
CanRead(d) == IF d.owned THEN (d.mode \div 256) % 2 = 1 ELSE (d.mode \div 4) % 2 = 1

CanSearch(d) == IF d.owned THEN (d.mode \div 64) % 2 = 1 ELSE d.mode % 2 = 1

\* the mode of an entry that readdir still lists and that another process
\* has removed by the time it is stat'ed
Gone == -1

\* the directory once the removals under way are over
Settled(d) ==
    IF ~d.exists THEN d
    ELSE [d EXCEPT !.files = [n \in {m \in DOMAIN d.files : d.files[m] # Gone} |->
                                 d.files[n]]]

\* readdir(dirPath): the entries present, in directory order
Entries(d) == SelectSeq(DirOrder, LAMBDA n : n \in DOMAIN d.files)

\* the loop of verifyPermissions over the entries; a failing stat leaves the
\* issues found so far and jumps to the catch block
RECURSIVE VerifyEntries(_, _, _)
VerifyEntries(d, entries, issues) ==
    IF entries = <<>> THEN issues
    ELSE LET name == Head(entries) IN
         IF ~IsConfigFile(name) THEN VerifyEntries(d, Tail(entries), issues)
         ELSE IF ~CanSearch(d)
              THEN Append(issues, <<"Failed to verify permissions: ", "EACCES ", name>>)
              ELSE IF d.files[name] = Gone
              THEN Append(issues, <<"Failed to verify permissions: ", "ENOENT ", name>>)
              ELSE LET fileMode == AndPermMask(S_IFREG + d.files[name]) IN
                   VerifyEntries(d, Tail(entries),
                       IF fileMode # ExpectedFileMode
                       THEN Append(issues, <<"File ", name, " has mode ">>
                                              \o NumToString(fileMode, 8)
                                              \o <<", expected 600">>)
                       ELSE issues)

\* (mutant) the catch block swallows the error and adds no issue
verifyPermissions_SilentCatch(win, d) ==
    IF win THEN [valid |-> TRUE, issues |-> <<>>]
    ELSE LET found ==
                 IF ~d.exists THEN << <<"Failed to verify permissions: ">> >>
                 ELSE LET dirMode == AndPermMask(S_IFDIR + d.mode)
                          dirIssues ==
                              IF dirMode # ExpectedDirMode
                              THEN << <<"Directory ", InstallDir, " has mode ">>
                                      \o NumToString(dirMode, 8)
                                      \o <<", expected 700">> >>
                              ELSE <<>>
                      IN  IF ~CanRead(d) THEN dirIssues
                          ELSE VerifyEntries(d, Entries(d), dirIssues)
             issues == SelectSeq(found,
                                 LAMBDA i : i[1] # "Failed to verify permissions: ")
         IN  [valid |-> Len(issues) = 0, issues |-> issues]

verifyPermissions(win, d) ==
    IF win THEN [valid |-> TRUE, issues |-> <<>>]
    ELSE LET issues ==
                 IF ~d.exists
                 THEN << <<"Failed to verify permissions: ", "ENOENT ", InstallDir>> >>
                 ELSE LET dirMode == AndPermMask(S_IFDIR + d.mode)
                          dirIssues ==
                              IF dirMode # ExpectedDirMode
                              THEN << <<"Directory ", InstallDir, " has mode ">>
                                      \o NumToString(dirMode, 8)
                                      \o <<", expected 700">> >>
                              ELSE <<>>
                      IN  IF ~CanRead(d)
                          THEN Append(dirIssues,
                                      <<"Failed to verify permissions: ", "EACCES ", InstallDir>>)
                          ELSE VerifyEntries(d, Entries(d), dirIssues)
         IN  [valid |-> Len(issues) = 0, issues |-> issues]

\* (mutant) only the .json files are given the config mode
RECURSIVE ChmodEntries_JsonOnly(_, _, _)
ChmodEntries_JsonOnly(d, entries, fileMode) ==
    IF entries = <<>> THEN [threw |-> FALSE, disk |-> d]
    ELSE LET name == Head(entries) IN
         IF name # "openclaw.json" THEN ChmodEntries_JsonOnly(d, Tail(entries), fileMode)
         ELSE IF ~CanSearch(d) \/ ~d.owned
              THEN [threw |-> TRUE, disk |-> d]
              ELSE ChmodEntries_JsonOnly([d EXCEPT !.files[name] = fileMode],
                                         Tail(entries), fileMode)

\* the loop of setSecurePermissions over the entries
RECURSIVE ChmodEntries(_, _, _)
ChmodEntries(d, entries, fileMode) ==
    IF entries = <<>> THEN [threw |-> FALSE, disk |-> d]
    ELSE LET name == Head(entries) IN
         IF ~IsConfigFile(name) THEN ChmodEntries(d, Tail(entries), fileMode)
         ELSE IF ~CanSearch(d) \/ ~d.owned
              THEN [threw |-> TRUE, disk |-> d]
              ELSE ChmodEntries([d EXCEPT !.files[name] = fileMode], Tail(entries), fileMode)

\* (mutant) the directory's own mode is left as it is
setSecurePermissions_FilesOnly(win, d, securityLevel) ==
    IF win THEN [threw |-> FALSE, disk |-> d]
    ELSE IF ~LevelDefined(securityLevel) THEN [threw |-> TRUE, disk |-> d]
    ELSE LET levelDef == getSecurityLevel(securityLevel)
             fileMode == ParseInt8(levelDef.filePermissions.config)
         IN  IF ~d.exists \/ ~d.owned \/ ~CanRead(d) THEN [threw |-> TRUE, disk |-> d]
             ELSE ChmodEntries(d, Entries(d), fileMode)

setSecurePermissions(win, d, securityLevel) ==
    IF win THEN [threw |-> FALSE, disk |-> d]
    ELSE IF ~LevelDefined(securityLevel) THEN [threw |-> TRUE, disk |-> d]
    ELSE LET levelDef == getSecurityLevel(securityLevel)
             dirMode == ParseInt8(levelDef.filePermissions.directory)
             fileMode == ParseInt8(levelDef.filePermissions.config)
         IN  IF ~d.exists \/ ~d.owned THEN [threw |-> TRUE, disk |-> d]
             ELSE LET d1 == [d EXCEPT !.mode = dirMode] IN
                  IF ~CanRead(d1) THEN [threw |-> TRUE, disk |-> d1]
                  ELSE ChmodEntries(d1, Entries(d1), fileMode)

---------------------------------------------------------------------------
(* The audit: src/src/core/security/audit-runner.ts *)

Undefined == "undefined"

\* result(severity, check, message, autoFixable, remediation?)
Result(severity, check, message, autoFixable, remediation) ==
    [severity |-> severity, check |-> check, message |-> message,
     autoFixable |-> autoFixable, remediation |-> remediation]

\* secrets.gatewayToken of an object that may lack the key
HasToken(s) == "gatewayToken" \in DOMAIN s

\* (mutant) the length in characters taken for the length in bytes
TokenBytes_NotHalved(token) == [whole |-> Len(token), tenth |-> 0]

\* secrets.gatewayToken.length / 2, a JavaScript number: whole part and
\* the decimal digit after the point (0 or 5)
TokenBytes(token) ==
    [whole |-> Len(token) \div 2, tenth |-> IF Len(token) % 2 = 1 THEN 5 ELSE 0]

\* `${tokenBytes}`
BytesToString(tb) ==
    NumToString(tb.whole, 10)
        \o (IF tb.tenth = 0 THEN <<>> ELSE <<".", DigitChar[tb.tenth + 1]>>)

\* the minimum of checkTokenEntropy
MinTokenBytes == 32

\* tokenBytes < n for an integer n
BytesBelow(tb, n) == tb.whole < n

checkGatewayAuth(cfg, s) ==
    IF ~HasToken(s) \/ Len(s.gatewayToken) = 0
    THEN Result("critical", "gateway-auth",
                <<"Gateway authentication is not enabled - no token configured.">>,
                TRUE, "Generate a gateway token using the token generator.")
    ELSE Result("pass", "gateway-auth", <<"Gateway authentication is enabled.">>,
                FALSE, Undefined)

\* evaluated only for a secrets object that has the key: reading .length of
\* undefined throws
checkTokenEntropy(s) ==
    LET tokenBytes == TokenBytes(s.gatewayToken) IN
    IF BytesBelow(tokenBytes, MinTokenBytes)
    THEN Result("critical", "token-entropy",
                <<"Gateway token has ">> \o BytesToString(tokenBytes)
                    \o <<" bytes of entropy, minimum is 32.">>,
                TRUE, "Regenerate the gateway token with at least 32 bytes.")
    ELSE Result("pass", "token-entropy",
                <<"Gateway token has ">> \o BytesToString(tokenBytes)
                    \o <<" bytes of entropy.">>,
                FALSE, Undefined)

\* (mutant) the wrong bind class flagged
checkBindAddress_Lan(cfg) ==
    IF cfg.gateway.bind = "lan"
    THEN Result("critical", "bind-address",
                <<"Gateway is using a custom bind address - verify it is not 0.0.0.0.">>,
                TRUE, "Set gateway bind to loopback, lan, or tailnet instead of custom.")
    ELSE Result("pass", "bind-address",
                <<"Gateway bind is set to ", cfg.gateway.bind, ".">>, FALSE, Undefined)

checkBindAddress(cfg) ==
    IF cfg.gateway.bind = "custom"
    THEN Result("critical", "bind-address",
                <<"Gateway is using a custom bind address - verify it is not 0.0.0.0.">>,
                TRUE, "Set gateway bind to loopback, lan, or tailnet instead of custom.")
    ELSE Result("pass", "bind-address",
                <<"Gateway bind is set to ", cfg.gateway.bind, ".">>, FALSE, Undefined)

checkFilePermissions(win, d) ==
    LET v == verifyPermissions(win, d) IN
    IF ~v.valid
    THEN Result("critical", "file-permissions",
                <<"File permission issues found: ">> \o Join(v.issues, "; "),
                TRUE, "Run setSecurePermissions to correct file modes.")
    ELSE Result("pass", "file-permissions", <<"File permissions are correct.">>,
                FALSE, Undefined)

checkDmPolicy(cfg) ==
    LET levelDef == getSecurityLevel(cfg.securityLevel) IN
    IF levelDef.channels.dmPolicy = "open"
    THEN Result("warning", "dm-policy",
                <<"DM policy is set to open - any user can message the bot.">>,
                TRUE, "Set DM policy to pairing or allowlist.")
    ELSE Result("pass", "dm-policy",
                <<"DM policy is set to ", levelDef.channels.dmPolicy, ".">>,
                FALSE, Undefined)

\* (mutant) the sandbox finding is not flagged as fixable
checkSandbox_NotFixable(cfg) ==
    LET levelDef == getSecurityLevel(cfg.securityLevel) IN
    IF levelDef.sandbox.mode = "off"
    THEN Result("warning", "sandbox-enabled",
                <<"Sandbox is disabled - code execution is unrestricted.">>,
                FALSE, "Enable sandbox mode (non-main or all).")
    ELSE Result("pass", "sandbox-enabled",
                <<"Sandbox mode is ", levelDef.sandbox.mode, ".">>, FALSE, Undefined)

checkSandbox(cfg) ==
    LET levelDef == getSecurityLevel(cfg.securityLevel) IN
    IF levelDef.sandbox.mode = "off"
    THEN Result("warning", "sandbox-enabled",
                <<"Sandbox is disabled - code execution is unrestricted.">>,
                TRUE, "Enable sandbox mode (non-main or all).")
    ELSE Result("pass", "sandbox-enabled",
                <<"Sandbox mode is ", levelDef.sandbox.mode, ".">>, FALSE, Undefined)

checkMdns(cfg) ==
    LET levelDef == getSecurityLevel(cfg.securityLevel) IN
    IF levelDef.discovery.mdnsMode = "full"
    THEN Result("info", "mdns-mode",
                <<"mDNS is set to full - the service is broadly discoverable.">>,
                TRUE, "Set mDNS to minimal or off.")
    ELSE Result("pass", "mdns-mode",
                <<"mDNS mode is ", levelDef.discovery.mdnsMode, ".">>, FALSE, Undefined)

checkLogRedaction(cfg) ==
    LET levelDef == getSecurityLevel(cfg.securityLevel) IN
    IF levelDef.logging.redactSensitive = "none"
    THEN Result("info", "log-redaction",
                <<"Log redaction is disabled - sensitive data may appear in logs.">>,
                TRUE, "Enable log redaction (tools or all).")
    ELSE Result("pass", "log-redaction",
                <<"Log redaction is set to ", levelDef.logging.redactSensitive, ".">>,
                FALSE, Undefined)

\* (mutant) the battery stops at the first critical finding
AuditResults_ShortCircuit(cfg, s, win, d) ==
    LET all == << checkGatewayAuth(cfg, s), checkTokenEntropy(s), checkBindAddress(cfg),
                  checkFilePermissions(win, d), checkDmPolicy(cfg), checkSandbox(cfg),
                  checkMdns(cfg), checkLogRedaction(cfg) >>
        stop == {i \in 1..Len(all) : all[i].severity = "critical"}
    IN  IF stop = {} THEN all
        ELSE SubSeq(all, 1, CHOOSE i \in stop : \A j \in stop : i <= j)

\* the array literal of runSecurityAudit, for inputs on which no check throws
AuditResults(cfg, s, win, d) ==
    << checkGatewayAuth(cfg, s),
       checkTokenEntropy(s),
       checkBindAddress(cfg),
       checkFilePermissions(win, d),
       checkDmPolicy(cfg),
       checkSandbox(cfg),
       checkMdns(cfg),
       checkLogRedaction(cfg) >>

\* (mutant) any finding that is not a pass counts as a warning
OverallStatus_InfoWarns(results) ==
    LET hasCritical == \E i \in 1..Len(results) : results[i].severity = "critical"
        hasWarning == \E i \in 1..Len(results) : results[i].severity # "pass"
    IN  IF hasCritical THEN "critical"
        ELSE IF hasWarning THEN "warning"
        ELSE "pass"

\* hasCritical / hasWarning and the if-chain of runSecurityAudit
OverallStatus(results) ==
    LET hasCritical == \E i \in 1..Len(results) : results[i].severity = "critical"
        hasWarning == \E i \in 1..Len(results) : results[i].severity = "warning"
    IN  IF hasCritical THEN "critical"
        ELSE IF hasWarning THEN "warning"
        ELSE "pass"

\* checkTokenEntropy reads .length of a missing token; checkDmPolicy and the
\* checks after it read a field of the undefined level definition
AuditThrows(cfg, s) == ~HasToken(s) \/ ~LevelDefined(cfg.securityLevel)

runSecurityAudit(cfg, s, win, d) ==
    IF AuditThrows(cfg, s) THEN [threw |-> TRUE]
    ELSE LET results == AuditResults(cfg, s, win, d) IN
         [threw |-> FALSE,
          report |-> [results |-> results,
                      overallStatus |-> OverallStatus(results),
                      autoFixedCount |-> 0]]

\* r.fixed of a result that may lack the key
IsFixed(r) == "fixed" \in DOMAIN r /\ r.fixed

\* (mutant) every result is counted, fixed or not
FixedCount_Len(results) == Len(results)

\* results.filter((r) => r.fixed).length
FixedCount(results) == Cardinality({i \in 1..Len(results) : IsFixed(results[i])})

\* (mutant) a fixed result is downgraded to a pass
MarkFixed_AsPass(r, message) ==
    [k \in DOMAIN r \cup {"fixed"} |->
        IF k = "fixed" THEN TRUE
        ELSE IF k = "message" THEN message
        ELSE IF k = "severity" THEN "pass"
        ELSE r[k]]

\* { ...r, fixed: true, message }
MarkFixed(r, message) ==
    [k \in DOMAIN r \cup {"fixed"} |->
        IF k = "fixed" THEN TRUE ELSE IF k = "message" THEN message ELSE r[k]]

\* the message each case of the switch writes
FixMessage(check) ==
    CASE check = "gateway-auth" -> <<"Gateway auth - auto-fix: regenerate token required.">>
      [] check = "token-entropy" -> <<"Token entropy - auto-fix: regenerate token required.">>
      [] check = "bind-address" -> <<"Bind address - auto-fix: set to loopback.">>
      [] check = "file-permissions" -> <<"File permissions corrected.">>
      [] check = "dm-policy" -> <<"DM policy - auto-fix: set to pairing.">>
      [] check = "sandbox-enabled" -> <<"Sandbox - auto-fix: set to non-main.">>
      [] check = "mdns-mode" -> <<"mDNS - auto-fix: set to minimal.">>
      [] check = "log-redaction" -> <<"Log redaction - auto-fix: set to tools.">>

CheckIds == <<"gateway-auth", "token-entropy", "bind-address", "file-permissions",
              "dm-policy", "sandbox-enabled", "mdns-mode", "log-redaction">>

\* (mutant) a result is skipped only if it is both a pass and not fixable
RECURSIVE AutoFixLoop_SkipBoth(_, _, _, _, _)
AutoFixLoop_SkipBoth(todo, fixed, cfg, win, d) ==
    IF todo = <<>> THEN [threw |-> FALSE, results |-> fixed, disk |-> d]
    ELSE LET r == Head(todo) IN
         IF r.severity = "pass" /\ ~r.autoFixable
         THEN AutoFixLoop_SkipBoth(Tail(todo), Append(fixed, r), cfg, win, d)
         ELSE IF r.check = "file-permissions"
         THEN LET set == setSecurePermissions(win, d, cfg.securityLevel) IN
              IF set.threw THEN [threw |-> TRUE, disk |-> set.disk]
              ELSE AutoFixLoop_SkipBoth(Tail(todo),
                                        Append(fixed, MarkFixed(r, FixMessage(r.check))),
                                        cfg, win, set.disk)
         ELSE IF r.check \in Range(CheckIds)
         THEN AutoFixLoop_SkipBoth(Tail(todo),
                                   Append(fixed, MarkFixed(r, FixMessage(r.check))),
                                   cfg, win, d)
         ELSE AutoFixLoop_SkipBoth(Tail(todo), Append(fixed, r), cfg, win, d)

\* (mutant) a failure of setSecurePermissions is swallowed and the result
\* marked fixed all the same
RECURSIVE AutoFixLoop_Swallow(_, _, _, _, _)
AutoFixLoop_Swallow(todo, fixed, cfg, win, d) ==
    IF todo = <<>> THEN [threw |-> FALSE, results |-> fixed, disk |-> d]
    ELSE LET r == Head(todo) IN
         IF r.severity = "pass" \/ ~r.autoFixable
         THEN AutoFixLoop_Swallow(Tail(todo), Append(fixed, r), cfg, win, d)
         ELSE IF r.check = "file-permissions"
         THEN LET set == setSecurePermissions(win, d, cfg.securityLevel) IN
              AutoFixLoop_Swallow(Tail(todo),
                                  Append(fixed, MarkFixed(r, FixMessage(r.check))),
                                  cfg, win, set.disk)
         ELSE IF r.check \in Range(CheckIds)
         THEN AutoFixLoop_Swallow(Tail(todo),
                                  Append(fixed, MarkFixed(r, FixMessage(r.check))),
                                  cfg, win, d)
         ELSE AutoFixLoop_Swallow(Tail(todo), Append(fixed, r), cfg, win, d)

autoFixAuditResults_Swallow(results, cfg, win, d) ==
    AutoFixLoop_Swallow(results, <<>>, cfg, win, d)

\* (mutant) the results the loop skips are left out of the list it builds
RECURSIVE AutoFixLoop_DropSkipped(_, _, _, _, _)
AutoFixLoop_DropSkipped(todo, fixed, cfg, win, d) ==
    IF todo = <<>> THEN [threw |-> FALSE, results |-> fixed, disk |-> d]
    ELSE LET r == Head(todo) IN
         IF r.severity = "pass" \/ ~r.autoFixable
         THEN AutoFixLoop_DropSkipped(Tail(todo), fixed, cfg, win, d)
         ELSE IF r.check = "file-permissions"
         THEN LET set == setSecurePermissions(win, d, cfg.securityLevel) IN
              IF set.threw THEN [threw |-> TRUE, disk |-> set.disk]
              ELSE AutoFixLoop_DropSkipped(Tail(todo),
                                           Append(fixed, MarkFixed(r, FixMessage(r.check))),
                                           cfg, win, set.disk)
         ELSE IF r.check \in Range(CheckIds)
         THEN AutoFixLoop_DropSkipped(Tail(todo),
                                      Append(fixed, MarkFixed(r, FixMessage(r.check))),
                                      cfg, win, d)
         ELSE AutoFixLoop_DropSkipped(Tail(todo), Append(fixed, r), cfg, win, d)

\* (mutant) no result is skipped: a pass is marked fixed like a finding
RECURSIVE AutoFixLoop_FixAll(_, _, _, _, _)
AutoFixLoop_FixAll(todo, fixed, cfg, win, d) ==
    IF todo = <<>> THEN [threw |-> FALSE, results |-> fixed, disk |-> d]
    ELSE LET r == Head(todo) IN
         IF r.check = "file-permissions"
         THEN LET set == setSecurePermissions(win, d, cfg.securityLevel) IN
              IF set.threw THEN [threw |-> TRUE, disk |-> set.disk]
              ELSE AutoFixLoop_FixAll(Tail(todo),
                                      Append(fixed, MarkFixed(r, FixMessage(r.check))),
                                      cfg, win, set.disk)
         ELSE IF r.check \in Range(CheckIds)
         THEN AutoFixLoop_FixAll(Tail(todo),
                                 Append(fixed, MarkFixed(r, FixMessage(r.check))),
                                 cfg, win, d)
         ELSE AutoFixLoop_FixAll(Tail(todo), Append(fixed, r), cfg, win, d)

\* the for-loop of autoFixAuditResults from the results still to visit, the
\* list built so far and the directory as the fixes so far left it
RECURSIVE AutoFixLoop(_, _, _, _, _)
AutoFixLoop(todo, fixed, cfg, win, d) ==
    IF todo = <<>> THEN [threw |-> FALSE, results |-> fixed, disk |-> d]
    ELSE LET r == Head(todo) IN
         IF r.severity = "pass" \/ ~r.autoFixable
         THEN AutoFixLoop(Tail(todo), Append(fixed, r), cfg, win, d)
         ELSE IF r.check = "file-permissions"
         THEN LET set == setSecurePermissions(win, d, cfg.securityLevel) IN
              IF set.threw THEN [threw |-> TRUE, disk |-> set.disk]
              ELSE AutoFixLoop(Tail(todo), Append(fixed, MarkFixed(r, FixMessage(r.check))),
                               cfg, win, set.disk)
         ELSE IF r.check \in Range(CheckIds)
         THEN AutoFixLoop(Tail(todo), Append(fixed, MarkFixed(r, FixMessage(r.check))),
                          cfg, win, d)
         ELSE AutoFixLoop(Tail(todo), Append(fixed, r), cfg, win, d)

autoFixAuditResults(results, cfg, win, d) == AutoFixLoop(results, <<>>, cfg, win, d)

---------------------------------------------------------------------------
(* Renderer: src/unnamed/part_001 (config/generator.ts).  A text is the    *)
(* list of its lines and a line a list of strings: fixed text in one piece, *)
(* a value whose characters matter character by character                  *)

\* let securityLevels = null, and what a successful load leaves in it
NullLevels == "null"

LoadedLevels == "SECURITY_LEVELS"

\* loadSecurityLevels(): the catalog if the dynamic import resolves, else null
loadSecurityLevels(imported) == IF imported THEN LoadedLevels ELSE NullLevels

\* getLevel(level) with the cache as it stands
getLevel(cache, level) ==
    IF cache # NullLevels /\ level \in DOMAIN SECURITY_LEVELS THEN SECURITY_LEVELS[level]
    ELSE IF level \in DOMAIN FALLBACK_LEVELS THEN FALLBACK_LEVELS[level]
    ELSE FALLBACK_LEVELS["L2"]

\* resolveBindAddress of generator.ts
generatorResolveBindAddress(bind) ==
    CASE bind = "loopback" -> "127.0.0.1"
      [] bind = "lan" -> "0.0.0.0"
      [] bind = "tailnet" -> "100.64.0.0"
      [] bind = "custom" -> "0.0.0.0"
      [] OTHER -> "127.0.0.1"

apiKeyEnvVar(provider) ==
    CASE provider = "anthropic" -> "ANTHROPIC_API_KEY"
      [] provider = "openai" -> "OPENAI_API_KEY"
      [] provider = "gemini" -> "GOOGLE_AI_API_KEY"
      [] provider = "openrouter" -> "OPENROUTER_API_KEY"
      [] OTHER -> "LLM_API_KEY"

\* JSON.stringify(value, null, 2): indentation of nesting depth n
Indent(n) == <<"", "  ", "    ", "      ", "        ">>[n + 1]

\* a JSON string literal from the characters of a string
RECURSIVE JsonEscape(_)
JsonEscape(chars) ==
    IF chars = <<>> THEN <<>>
    ELSE (IF Head(chars) \in {"\"", "\\"} THEN <<"\\", Head(chars)>> ELSE <<Head(chars)>>)
             \o JsonEscape(Tail(chars))

JsonString(chars) == <<"\"">> \o JsonEscape(chars) \o <<"\"">>

\* a JSON string literal from a string without quotes or backslashes
JsonText(str) == <<"\"", str, "\"">>

JsonBool(b) == IF b THEN <<"true">> ELSE <<"false">>

\* the blocks of lines of an object's members or an array's items, a comma
\* after each but the last
RECURSIVE CommaJoin(_)
CommaJoin(blocks) ==
    IF blocks = <<>> THEN <<>>
    ELSE IF Len(blocks) = 1 THEN Head(blocks)
    ELSE LET b == Head(blocks) IN
         [b EXCEPT ![Len(b)] = Append(b[Len(b)], ",")] \o CommaJoin(Tail(blocks))

\* a value's lines with text put before its first line
Prefixed(prefix, value) == [value EXCEPT ![1] = prefix \o value[1]]

\* one member of an object at nesting depth n
JsonMember(n, key, value) == Prefixed(<<Indent(n), "\"", key, "\": ">>, value)

\* a value on one line
JsonScalar(parts) == <<parts>>

\* an object whose members are at nesting depth n
JsonObject(n, members) ==
    IF members = <<>> THEN <<<<"{}">>>>
    ELSE <<<<"{">>>> \o CommaJoin(members) \o <<<<Indent(n - 1), "}">>>>

\* an array whose items are at nesting depth n
JsonArray(n, items) ==
    IF items = <<>> THEN <<<<"[]">>>>
    ELSE <<<<"[">>>>
             \o CommaJoin([i \in 1..Len(items) |-> Prefixed(<<Indent(n)>>, items[i])])
             \o <<<<Indent(n - 1), "]">>>>

\* an array of strings
JsonTextArray(n, strs) ==
    JsonArray(n, [i \in 1..Len(strs) |-> JsonScalar(JsonText(strs[i]))])

\* members present only under a condition: ...(cond ? { ... } : {})
When(cond, members) == IF cond THEN members ELSE <<>>

\* a key that is present and holds a non-empty string: the test `x.key ?`
Truthy(rec, key) == key \in DOMAIN rec /\ rec[key] # ""

\* the same test for a string held character by character
TruthyChars(rec, key) == key \in DOMAIN rec /\ Len(rec[key]) > 0

\* the placeholder the gateway reads the token through
TokenPlaceholder == "${OPENCLAW_GATEWAY_TOKEN}"

\* one element of the channels array
ChannelJson(ch) ==
    JsonObject(3,
        <<JsonMember(3, "id", JsonScalar(JsonText(ch.id))),
          JsonMember(3, "enabled", JsonScalar(JsonBool(TRUE)))>>
        \o When(TruthyChars(ch, "token"),
                <<JsonMember(3, "token", JsonScalar(JsonString(ch.token)))>>)
        \o When("config" \in DOMAIN ch,
                <<JsonMember(3, "config",
                     JsonObject(4, [i \in 1..Len(ch.config) |->
                                       JsonMember(4, ch.config[i][1],
                                           JsonScalar(JsonText(ch.config[i][2])))]))>>))

\* the text generateOpenClawJson builds, with authToken as the JSON value of
\* gateway.auth.token
OpenClawJsonText(cfg, levelDef, authToken) ==
    LET bindAddr == generatorResolveBindAddress(cfg.gateway.bind)
        enabled == SelectSeq(cfg.channels, LAMBDA ch : ch.enabled)
        obj ==
          JsonObject(1,
            <<JsonMember(1, "gateway", JsonObject(2,
                 <<JsonMember(2, "bind", JsonScalar(JsonText(bindAddr))),
                   JsonMember(2, "port", JsonScalar(NumToString(cfg.gateway.port, 10))),
                   JsonMember(2, "auth", JsonObject(3,
                      <<JsonMember(3, "mode", JsonScalar(JsonText("token"))),
                        JsonMember(3, "token", JsonScalar(authToken))>>))>>)),
              JsonMember(1, "agents", JsonObject(2,
                 <<JsonMember(2, "sandbox", JsonObject(3,
                      <<JsonMember(3, "mode", JsonScalar(JsonText(levelDef.sandbox.mode))),
                        JsonMember(3, "scope", JsonScalar(JsonText(levelDef.sandbox.scope))),
                        JsonMember(3, "workspaceAccess",
                            JsonScalar(JsonText(levelDef.sandbox.workspaceAccess)))>>))>>)),
              JsonMember(1, "channels",
                 JsonArray(2, [i \in 1..Len(enabled) |-> ChannelJson(enabled[i])])),
              JsonMember(1, "tools", JsonObject(2,
                 <<JsonMember(2, "deny", JsonTextArray(3, levelDef.tools.deny))>>
                 \o When("allow" \in DOMAIN levelDef.tools /\ levelDef.tools.allow # <<>>,
                         <<JsonMember(2, "allow",
                              JsonTextArray(3, levelDef.tools.allow))>>)))>>
            \o When(cfg.llm.provider = "ollama" /\ "ollama" \in DOMAIN cfg.llm,
                 <<JsonMember(1, "ollama", JsonObject(2,
                      <<JsonMember(2, "baseUrl", JsonScalar(JsonText(cfg.llm.ollama.baseUrl))),
                        JsonMember(2, "model", JsonScalar(JsonText(cfg.llm.ollama.model)))>>
                      \o When(Truthy(cfg.llm.ollama, "keepAlive"),
                              <<JsonMember(2, "keepAlive",
                                   JsonScalar(JsonText(cfg.llm.ollama.keepAlive)))>>)))>>)
            \o When("routing" \in DOMAIN cfg.llm /\ cfg.llm.routing.mode = "hybrid",
                 <<JsonMember(1, "routing", JsonObject(2,
                      <<JsonMember(2, "mode", JsonScalar(JsonText(cfg.llm.routing.mode))),
                        JsonMember(2, "primary",
                            JsonScalar(JsonText(cfg.llm.routing.primary)))>>
                      \o When(Truthy(cfg.llm.routing, "fallback"),
                              <<JsonMember(2, "fallback",
                                   JsonScalar(JsonText(cfg.llm.routing.fallback)))>>)
                      \o When("rules" \in DOMAIN cfg.llm.routing,
                              <<JsonMember(2, "rules",
                                   JsonTextArray(3, cfg.llm.routing.rules))>>)))>>)
            \o <<JsonMember(1, "session", JsonObject(2,
                   <<JsonMember(2, "idleTimeoutMinutes", JsonScalar(NumToString(30, 10))),
                     JsonMember(2, "maxConcurrent", JsonScalar(NumToString(4, 10)))>>)),
                 JsonMember(1, "logging", JsonObject(2,
                   <<JsonMember(2, "level", JsonScalar(JsonText("info"))),
                     JsonMember(2, "redactSensitive",
                         JsonScalar(JsonText(levelDef.logging.redactSensitive)))>>)),
                 JsonMember(1, "discovery", JsonObject(2,
                   <<JsonMember(2, "mdns",
                         JsonScalar(JsonText(levelDef.discovery.mdnsMode)))>>))>>
            \o When("training" \in DOMAIN cfg /\ cfg.training.enabled,
                 <<JsonMember(1, "training", JsonObject(2,
                      <<JsonMember(2, "enabled", JsonScalar(JsonBool(TRUE))),
                        JsonMember(2, "dataDir", JsonScalar(JsonText(cfg.training.dataDir))),
                        JsonMember(2, "autoCollect",
                            JsonScalar(JsonBool(cfg.training.autoCollect))),
                        JsonMember(2, "minEntries",
                            JsonScalar(NumToString(cfg.training.minEntriesForTraining, 10))),
                        JsonMember(2, "autoTrain",
                            JsonScalar(JsonBool(cfg.training.autoTrain))),
                        JsonMember(2, "baseModel",
                            JsonScalar(JsonText(cfg.training.baseModel)))>>))>>))
        header ==
          <<<<"// OpenClaw configuration - generated by openclaw-deploy">>,
            <<"// Security level: ", cfg.securityLevel, " (", levelDef.name, ")">>,
            <<"// Environment variables are interpolated at runtime.">>>>
    IN  header \o obj \o <<<<>>>>

\* (mutant) the token itself is written as the value of gateway.auth.token
generateOpenClawJson_LiteralToken(cfg, s, levelDef) ==
    OpenClawJsonText(cfg, levelDef, JsonString(s.gatewayToken))

\* generateOpenClawJson(config, _secrets, levelDef)
generateOpenClawJson(cfg, s, levelDef) ==
    OpenClawJsonText(cfg, levelDef, JsonText(TokenPlaceholder))

\* generateDockerCompose(config, _secrets, levelDef)
generateDockerCompose(cfg, s, levelDef) ==
    LET dockerDef == levelDef.docker
        bindAddr == generatorResolveBindAddress(cfg.gateway.bind)
        port == NumToString(cfg.gateway.port, 10)
        envVarName == apiKeyEnvVar(cfg.llm.provider)
        item(str) == <<"      - ", str>>
        list(title, strs) ==
            IF Len(strs) > 0
            THEN <<<<title>>>> \o [i \in 1..Len(strs) |-> item(strs[i])]
            ELSE <<>>
    IN  <<<<"# Generated by openclaw-deploy - do not edit manually">>,
          <<"# Security level: ", cfg.securityLevel>>,
          <<>>,
          <<"services:">>,
          <<"  openclaw:">>,
          <<"    image: ghcr.io/openclaw/openclaw:latest">>,
          <<"    container_name: openclaw">>,
          <<"    restart: unless-stopped">>,
          <<"    user: \"", dockerDef.user, "\"">>,
          <<"    ports:">>,
          <<"      - \"", bindAddr, ":">> \o port \o <<":">> \o port \o <<"\"">>,
          <<"    volumes:">>,
          <<"      - ", cfg.deployment.installDir, "/openclaw.json:/app/config/openclaw.json:ro">>,
          <<"      - openclaw-data:/app/data">>>>
        \o When("training" \in DOMAIN cfg /\ cfg.training.enabled,
                <<<<"      - ", cfg.training.dataDir, ":/app/training">>>>)
        \o When(levelDef.sandbox.workspaceAccess # "none",
                <<<<"      - ", cfg.deployment.workspace, ":/app/workspace",
                    IF levelDef.sandbox.workspaceAccess = "ro" THEN ":ro" ELSE "">>>>)
        \o <<<<"    env_file:">>,
             <<"      - ", cfg.deployment.installDir, "/.env">>,
             <<"    environment:">>,
             <<"      - OPENCLAW_GATEWAY_PORT=${OPENCLAW_GATEWAY_PORT}">>>>
        \o (IF cfg.llm.provider = "ollama"
            THEN <<<<"      - OLLAMA_HOST=${OLLAMA_HOST}">>,
                   <<"      - OLLAMA_MODEL=${OLLAMA_MODEL}">>,
                   <<"    extra_hosts:">>,
                   <<"      - \"host.docker.internal:host-gateway\"">>>>
            ELSE <<<<"      - ", envVarName, "=${", envVarName, "}">>>>)
        \o When(dockerDef.readOnlyRoot, <<<<"    read_only: true">>>>)
        \o list("    cap_drop:", dockerDef.capDrop)
        \o list("    cap_add:", dockerDef.capAdd)
        \o list("    security_opt:", dockerDef.securityOpt)
        \o list("    tmpfs:", dockerDef.tmpfs)
        \o <<<<"    deploy:">>,
             <<"      resources:">>,
             <<"        limits:">>,
             <<"          memory: ", dockerDef.memory>>,
             <<"          cpus: \"", dockerDef.cpus, "\"">>,
             <<"    pids_limit: ">> \o NumToString(dockerDef.pidsLimit, 10),
             <<"    healthcheck:">>,
             <<"      test: [\"CMD\", \"curl\", \"-f\", \"http://127.0.0.1:">> \o port
                 \o <<"/health\"]">>,
             <<"      interval: 30s">>,
             <<"      timeout: 10s">>,
             <<"      retries: 3">>,
             <<"      start_period: 15s">>,
             <<"    logging:">>,
             <<"      driver: json-file">>,
             <<"      options:">>,
             <<"        max-size: \"10m\"">>,
             <<"        max-file: \"3\"">>,
             <<>>,
             <<"volumes:">>,
             <<"  openclaw-data:">>,
             <<"    driver: local">>,
             <<>>>>

\* (mutant) the env file carries a token other than the one in secrets
generateEnvFile_OtherToken(cfg, s) ==
    <<<<"# OpenClaw environment - generated by openclaw-deploy">>,
      <<"# Keep this file private (chmod 600).">>,
      <<>>,
      <<"OPENCLAW_GATEWAY_TOKEN=">> \o HexString(64),
      <<"OPENCLAW_GATEWAY_PORT=">> \o NumToString(cfg.gateway.port, 10),
      <<"OPENCLAW_INSTALL_DIR=", cfg.deployment.installDir>>,
      <<"OPENCLAW_WORKSPACE=", cfg.deployment.workspace>>,
      <<>>>>

\* generateEnvFile(config, secrets)
generateEnvFile(cfg, s) ==
    LET port == NumToString(cfg.gateway.port, 10) IN
    <<<<"# OpenClaw environment - generated by openclaw-deploy">>,
      <<"# Keep this file private (chmod 600).">>,
      <<>>,
      <<"OPENCLAW_GATEWAY_TOKEN=">>
          \o (IF "gatewayToken" \in DOMAIN s THEN s.gatewayToken ELSE <<Undefined>>)>>
    \o (IF cfg.llm.provider = "ollama"
        THEN LET baseUrl == IF "ollama" \in DOMAIN cfg.llm THEN cfg.llm.ollama.baseUrl
                            ELSE "http://localhost:11434"
                 model == IF "ollama" \in DOMAIN cfg.llm THEN cfg.llm.ollama.model
                          ELSE IF "model" \in DOMAIN cfg.llm THEN cfg.llm.model
                          ELSE "llama3.3:70b"
             IN  <<<<"OLLAMA_BASE_URL=", baseUrl>>, <<"OLLAMA_MODEL=", model>>>>
                 \o When(cfg.deployment.mode = "docker",
                         <<<<"OLLAMA_HOST=http://host.docker.internal:11434">>>>)
        ELSE <<<<apiKeyEnvVar(cfg.llm.provider), "=">> \o cfg.llm.apiKey>>)
    \o <<<<"OPENCLAW_GATEWAY_PORT=">> \o port,
         <<"OPENCLAW_INSTALL_DIR=", cfg.deployment.installDir>>,
         <<"OPENCLAW_WORKSPACE=", cfg.deployment.workspace>>,
         <<>>>>

\* whether generateCaddyfile(config) returns a text
HasCaddyfile(cfg) == "tls" \in DOMAIN cfg /\ cfg.tls.enabled /\ Truthy(cfg.tls, "domain")

\* generateCaddyfile(config), where it returns a text
generateCaddyfile(cfg) ==
    <<<<cfg.tls.domain, " {">>,
      <<"  reverse_proxy 127.0.0.1:">> \o NumToString(cfg.gateway.port, 10)>>
    \o When(Truthy(cfg.tls, "email"), <<<<"  tls ", cfg.tls.email>>>>)
    \o <<<<"  header {">>,
         <<"    Strict-Transport-Security \"max-age=31536000; includeSubDomains\"">>,
         <<"    X-Content-Type-Options \"nosniff\"">>,
         <<"    X-Frame-Options \"DENY\"">>,
         <<"  }">>,
         <<"}">>,
         <<>>>>

\* the key of GeneratedFiles that runInit writes to each file name
FileKey ==
    [n \in {"openclaw.json", ".env", "docker-compose.yml", "Caddyfile"} |->
        CASE n = "openclaw.json" -> "openclawJson"
          [] n = ".env" -> "envFile"
          [] n = "docker-compose.yml" -> "dockerComposeYml"
          [] n = "Caddyfile" -> "caddyfile"]

\* the GeneratedFiles object built from the level definition in use
RenderFiles(cfg, s, levelDef) ==
    [k \in {"openclawJson", "envFile"}
            \cup (IF cfg.deployment.mode = "docker" THEN {"dockerComposeYml"} ELSE {})
            \cup (IF HasCaddyfile(cfg) THEN {"caddyfile"} ELSE {}) |->
        CASE k = "openclawJson" -> generateOpenClawJson(cfg, s, levelDef)
          [] k = "envFile" -> generateEnvFile(cfg, s)
          [] k = "dockerComposeYml" -> generateDockerCompose(cfg, s, levelDef)
          [] k = "caddyfile" -> generateCaddyfile(cfg)]

\* generateOpenClawConfig(config, secrets) called with the cache as it
\* stands, the dynamic import resolving or not: the cache it leaves and the
\* files it returns
generateOpenClawConfig(cfg, s, cache, imported) ==
    LET loaded == IF cache = NullLevels THEN loadSecurityLevels(imported) ELSE cache IN
    [securityLevels |-> loaded,
     files |-> RenderFiles(cfg, s, getLevel(loaded, cfg.securityLevel))]

---------------------------------------------------------------------------
(* Inputs of the direct calls *)

GatewayBind == {"loopback", "lan", "tailnet", "custom"}

Severity == {"critical", "warning", "info", "pass"}

TokenLens == {0, 1, 2, 31, 32, 33} \cup (62..MaxTokenLen)

\* secrets objects: with a token of each length, and without the key
SecretsSamples ==
    {[masterEncryptionKey |-> HexString(64)]}
        \cup {[gatewayToken |-> HexString(n), masterEncryptionKey |-> HexString(64)] :
                 n \in TokenLens}

\* a DeploymentConfig as getDefaults shapes it
ConfigOf(level, bind) ==
    [llm |-> [provider |-> "anthropic", apiKey |-> <<"s", "k">>,
              model |-> "claude-opus-4-6"],
     channels |-> <<[id |-> "webchat", enabled |-> TRUE]>>,
     securityLevel |-> level,
     gateway |-> [bind |-> bind, port |-> 18789],
     deployment |-> [mode |-> "docker", workspace |-> "~/.openclaw/workspace",
                     installDir |-> InstallDir]]

MissingDir == [exists |-> FALSE, mode |-> 0, owned |-> TRUE, files |-> [n \in {} |-> 0]]

\* 0o700, 0o755, 0o300 (not readable), 0o600 (not searchable)
DirModes == {448, 493, 192, 384}

\* 0o600, 0o644
FileModes == {384, 420}

FileMaps(names) == UNION {[S -> FileModes] : S \in SUBSET names}

DisksOver(names) ==
    {MissingDir} \cup
    {[exists |-> TRUE, mode |-> m, owned |-> o, files |-> f] :
        m \in DirModes, o \in BOOLEAN, f \in FileMaps(names)}

\* the platform and the directory together: on win32 the modes play no part
Hosts(disks) ==
    {[win |-> FALSE, disk |-> d] : d \in disks}
        \cup {[win |-> TRUE, disk |-> d] :
                 d \in {MissingDir,
                        [exists |-> TRUE, mode |-> 493, owned |-> TRUE,
                         files |-> [n \in {".env"} |-> 420]]}}

Idle ==
    /\ opts = None
    /\ files = None
    /\ securityLevels = NullLevels
    /\ calls = <<>>
    /\ written = NoTexts
    /\ applied = <<>>
    /\ log = <<>>
    /\ docker = None
    /\ result = None
    /\ tampered = FALSE

---------------------------------------------------------------------------
(* SpecAudit: runSecurityAudit, then autoFixAuditResults on its results,    *)
(* then verifyPermissions, called directly on drawn inputs                 *)

InitAudit ==
    /\ pc = "call_audit"
    /\ Idle
    /\ wait = None
    /\ env = None
    /\ \E h \in Hosts(DisksOver({".env", "docker-compose.yml", "openclaw.json"})) :
          isWin = h.win /\ disk = h.disk
    /\ \E level \in SecurityLevel, bind \in GatewayBind : config = ConfigOf(level, bind)
    /\ secrets \in SecretsSamples
    /\ report = None
    /\ inResults = <<>>
    /\ outResults = None
    /\ verified = None

CallAudit ==
    /\ pc = "call_audit"
    /\ LET a == runSecurityAudit(config, secrets, isWin, disk) IN
       IF a.threw
       THEN /\ pc' = "audit_threw"
            /\ UNCHANGED report
       ELSE /\ pc' = "call_autofix"
            /\ report' = a.report
    /\ UNCHANGED <<opts, wait, env, isWin, config, secrets, disk, files, inResults, outResults,
                   verified, log, docker, result, tampered,
                   securityLevels, calls, written, applied>>

CallAutoFix ==
    /\ pc = "call_autofix"
    /\ LET f == autoFixAuditResults(inResults', config, isWin, disk) IN
       /\ inResults' = (IF report = None THEN inResults ELSE report.results)
       /\ outResults' = (IF f.threw THEN [threw |-> TRUE]
                         ELSE [threw |-> FALSE, results |-> f.results])
       /\ disk' = f.disk
    /\ pc' = "call_verify"
    /\ UNCHANGED <<opts, wait, env, isWin, config, secrets, files, report, verified, log, docker,
                   result, tampered,
                   securityLevels, calls, written, applied>>

CallVerify ==
    /\ pc = "call_verify"
    /\ verified' = verifyPermissions(isWin, disk)
    /\ pc' = "end"
    /\ UNCHANGED <<opts, wait, env, isWin, config, secrets, disk, files, report, inResults,
                   outResults, log, docker, result, tampered,
                   securityLevels, calls, written, applied>>

NextAudit == CallAudit \/ CallAutoFix \/ CallVerify

SpecAudit == InitAudit /\ [][NextAudit]_vars

---------------------------------------------------------------------------
(* SpecAutoFix: autoFixAuditResults called directly on any list of results *)

\* results of every severity and flag for three check ids (one with a real
\* fix, one with a message-only fix, one the switch does not know), and a
\* fixable warning for each of the eight ids
ResultSamples ==
    {Result(sev, check, <<"finding">>, fixable, Undefined) :
        sev \in Severity, fixable \in BOOLEAN,
        check \in {"file-permissions", "bind-address", "custom-check"}}
    \cup {Result("warning", CheckIds[i], <<"finding">>, TRUE, "remedy") :
             i \in 1..Len(CheckIds)}

ResultLists == UNION {[1..n -> ResultSamples] : n \in 0..MaxResults}

InitAutoFix ==
    /\ pc = "call_autofix"
    /\ Idle
    /\ wait = None
    /\ env = None
    /\ \E h \in Hosts({d \in DisksOver({".env"}) : d.exists => d.mode \in {448, 493}}) :
          isWin = h.win /\ disk = h.disk
    /\ config = ConfigOf("L2", "loopback")
    /\ secrets = [gatewayToken |-> HexString(64), masterEncryptionKey |-> HexString(64)]
    /\ report = None
    /\ inResults \in ResultLists
    /\ outResults = None
    /\ verified = None

NextAutoFix == CallAutoFix \/ CallVerify

SpecAutoFix == InitAutoFix /\ [][NextAutoFix]_vars

---------------------------------------------------------------------------
(* SpecStatus: the aggregation of runSecurityAudit on every list of eight  *)
(* check results                                                           *)

InitStatus ==
    /\ pc = "aggregate"
    /\ Idle
    /\ wait = None
    /\ env = None
    /\ isWin = FALSE
    /\ disk = MissingDir
    /\ config = ConfigOf("L2", "loopback")
    /\ secrets = [gatewayToken |-> HexString(64), masterEncryptionKey |-> HexString(64)]
    /\ report = None
    /\ \E sev \in [1..Len(CheckIds) -> Severity] :
          inResults = [i \in 1..Len(CheckIds) |->
                          Result(sev[i], CheckIds[i], <<"finding">>, sev[i] # "pass",
                                 Undefined)]
    /\ outResults = None
    /\ verified = None

\* lines 151-168 of runSecurityAudit on the results array
Aggregate ==
    /\ pc = "aggregate"
    /\ report' = [results |-> inResults,
                  overallStatus |-> OverallStatus(inResults),
                  autoFixedCount |-> 0]
    /\ pc' = "end"
    /\ UNCHANGED <<opts, wait, env, isWin, config, secrets, disk, files, inResults, outResults,
                   verified, log, docker, result, tampered,
                   securityLevels, calls, written, applied>>

NextStatus == Aggregate

SpecStatus == InitStatus /\ [][NextStatus]_vars

---------------------------------------------------------------------------
(* Option parsing and config building: src/src/cli/commands/init.ts,       *)
(* src/unnamed/part_002 (config/validator.ts), src/unnamed/part_004        *)
(* (config/defaults.ts), src/src/core/config/schema.ts                     *)

DecDigit == [c \in Range(DigitChar) |-> CHOOSE n \in 0..9 : DigitChar[n + 1] = c]

\* the digits parseInt(s, 10) reads from the front of s
RECURSIVE LeadingDigits(_)
LeadingDigits(s) ==
    IF s = <<>> \/ Head(s) \notin DOMAIN DecDigit THEN <<>>
    ELSE <<Head(s)>> \o LeadingDigits(Tail(s))

RECURSIVE DigitsValue(_, _)
DigitsValue(ds, acc) ==
    IF ds = <<>> THEN acc ELSE DigitsValue(Tail(ds), acc * 10 + DecDigit[Head(ds)])

\* parseInt(s, 10): NaN when no digit follows the optional sign
ParseInt10(s) ==
    LET neg == s # <<>> /\ Head(s) = "-"
        body == IF s # <<>> /\ Head(s) \in {"-", "+"} THEN Tail(s) ELSE s
        ds == LeadingDigits(body)
    IN  IF ds = <<>> THEN [nan |-> TRUE, value |-> 0]
        ELSE [nan |-> FALSE, value |-> IF neg THEN 0 - DigitsValue(ds, 0)
                                                ELSE DigitsValue(ds, 0)]

\* String.prototype.trim, String.prototype.startsWith
RECURSIVE TrimStart(_)
TrimStart(s) == IF s # <<>> /\ Head(s) = " " THEN TrimStart(Tail(s)) ELSE s

RECURSIVE TrimEnd(_)
TrimEnd(s) ==
    IF s # <<>> /\ s[Len(s)] = " " THEN TrimEnd(SubSeq(s, 1, Len(s) - 1)) ELSE s

Trim(s) == TrimEnd(TrimStart(s))

StartsWith(s, prefix) == Len(s) >= Len(prefix) /\ SubSeq(s, 1, Len(prefix)) = prefix

\* validateApiKey(key).provider, for a key given on the command line
validateApiKey(key) ==
    LET trimmed == Trim(key) IN
    IF Len(trimmed) = 0 THEN [valid |-> FALSE, provider |-> "null"]
    ELSE IF StartsWith(trimmed, <<"s", "k", "-", "a", "n", "t", "-">>)
         THEN [valid |-> TRUE, provider |-> "anthropic"]
    ELSE IF StartsWith(trimmed, <<"s", "k", "-">>)
         THEN [valid |-> TRUE, provider |-> "openai"]
    ELSE IF StartsWith(trimmed, <<"A", "I">>)
         THEN [valid |-> TRUE, provider |-> "gemini"]
    ELSE IF Len(trimmed) >= 10 THEN [valid |-> TRUE, provider |-> "openrouter"]
    ELSE [valid |-> FALSE, provider |-> "null"]

ChannelId == {"webchat", "telegram", "whatsapp", "discord", "slack", "signal"}

\* parseChannelIds on the list already split at commas
parseChannelIds(list) == SelectSeq(list, LAMBDA id : id \in ChannelId)

\* [...new Set(['webchat', ...ids])]: first occurrences, in order
RECURSIVE Unique(_, _)
Unique(ids, seen) ==
    IF ids = <<>> THEN <<>>
    ELSE IF Head(ids) \in seen THEN Unique(Tail(ids), seen)
    ELSE <<Head(ids)>> \o Unique(Tail(ids), seen \cup {Head(ids)})

toChannelSelections(ids) ==
    LET unique == Unique(<<"webchat">> \o ids, {}) IN
    [i \in 1..Len(unique) |-> [id |-> unique[i], enabled |-> TRUE]]

GATEWAY_PORT == 18789

GATEWAY_BIND_BY_LEVEL == [L1 |-> "loopback", L2 |-> "loopback", L3 |-> "loopback"]

\* getDefaults(securityLevel) with the default provider
getDefaults(securityLevel) ==
    [llm |-> [provider |-> "anthropic", apiKey |-> <<>>, model |-> "claude-opus-4-6"],
     channels |-> <<[id |-> "webchat", enabled |-> TRUE]>>,
     securityLevel |-> securityLevel,
     gateway |-> [bind |-> IF securityLevel \in DOMAIN GATEWAY_BIND_BY_LEVEL
                           THEN GATEWAY_BIND_BY_LEVEL[securityLevel] ELSE Undefined,
                  port |-> GATEWAY_PORT],
     deployment |-> [mode |-> "docker", workspace |-> "~/.openclaw/workspace",
                     installDir |-> InstallDir]]

\* step 5 of runInit: the config literal built over the defaults
BuildConfig(o, provider, apiKey, channelIds) ==
    LET securityLevel == IF o.security = "" THEN "L2" ELSE o.security
        defaults == getDefaults(securityLevel)
        port == ParseInt10(o.port)
    IN  [llm |-> [provider |-> provider, apiKey |-> apiKey, model |-> defaults.llm.model],
         channels |-> toChannelSelections(channelIds),
         securityLevel |-> securityLevel,
         gateway |-> [bind |-> IF "bind" \in DOMAIN o THEN o.bind
                               ELSE defaults.gateway.bind,
                      port |-> IF port.nan \/ port.value = 0 THEN defaults.gateway.port
                               ELSE port.value],
         deployment |-> [defaults.deployment EXCEPT
                            !.mode = IF o.docker THEN "docker" ELSE "native"]]

LlmProvider == {"anthropic", "openai", "gemini", "openrouter", "ollama"}

MinPort == 1024

MaxPort == 65535

\* DeploymentConfigSchema.safeParse(cfg).success
validateDeploymentConfig(cfg) ==
    /\ cfg.llm.provider \in LlmProvider
    /\ (cfg.llm.provider = "ollama" \/ Len(cfg.llm.apiKey) > 0)
    /\ Len(cfg.channels) >= 1
    /\ \A i \in 1..Len(cfg.channels) : cfg.channels[i].id \in ChannelId
    /\ cfg.securityLevel \in SecurityLevel
    /\ cfg.gateway.bind \in GatewayBind
    /\ cfg.gateway.port >= MinPort
    /\ cfg.gateway.port <= MaxPort
    /\ cfg.deployment.mode \in {"docker", "native"}
    /\ Len(cfg.deployment.workspace) >= 1
    /\ Len(cfg.deployment.installDir) >= 1

\* resolveBindAddress of init.ts
resolveBindAddress(bind) ==
    CASE bind = "loopback" -> "127.0.0.1"
      [] bind = "lan" -> "0.0.0.0"
      [] bind = "tailnet" -> "100.64.0.0"
      [] bind = "custom" -> "0.0.0.0"
      [] OTHER -> "127.0.0.1"

---------------------------------------------------------------------------
(* Secrets: src/src/core/security/token-generator.ts *)

\* bytes per token and per key
SecretBytes == 32

\* outcomes of randomBytes(n) the model draws from
RandomBytes(n) == {[i \in 1..n |-> b] : b \in {10, 171}}

\* Buffer.toString('hex')
RECURSIVE ToHex(_)
ToHex(bytes) ==
    IF bytes = <<>> THEN <<>>
    ELSE <<HexChars[(Head(bytes) \div 16) + 1], HexChars[(Head(bytes) % 16) + 1]>>
             \o ToHex(Tail(bytes))

\* generateSecrets(): every pair the draws can give
GeneratedSecretsSet ==
    {[gatewayToken |-> ToHex(t), masterEncryptionKey |-> ToHex(k)] :
        t \in RandomBytes(SecretBytes), k \in RandomBytes(SecretBytes)}

---------------------------------------------------------------------------
(* Files: the writes of runInit step 9 *)

\* modes mkdir and writeFile create with under the usual umask 022
CreatedDirMode == 493

CreatedFileMode == 420

CanWriteDir(d) ==
    /\ CanSearch(d)
    /\ IF d.owned THEN (d.mode \div 128) % 2 = 1 ELSE (d.mode \div 2) % 2 = 1

\* mkdir(installDir, { recursive: true })
Mkdir(d) ==
    IF d.exists THEN d
    ELSE [exists |-> TRUE, mode |-> CreatedDirMode, owned |-> TRUE,
          files |-> [n \in {} |-> 0]]

\* writeFile(join(installDir, name), text): an existing file keeps its mode
WriteFile(d, name) ==
    IF ~d.exists \/ ~CanSearch(d) THEN [threw |-> TRUE, disk |-> d]
    ELSE IF name \in DOMAIN d.files
    THEN (IF d.owned THEN [threw |-> FALSE, disk |-> d] ELSE [threw |-> TRUE, disk |-> d])
    ELSE IF ~CanWriteDir(d) THEN [threw |-> TRUE, disk |-> d]
    ELSE [threw |-> FALSE,
          disk |-> [d EXCEPT !.files = [n \in DOMAIN d.files \cup {name} |->
                                            IF n = name THEN CreatedFileMode
                                            ELSE d.files[n]]]]

---------------------------------------------------------------------------
(* Spec: runInit, src/src/cli/commands/init.ts lines 106-290 *)

KeyAnthropic == <<"s", "k", "-", "a", "n", "t", "-", "1">>

\* values of --port, --security, --bind, --api-key and --platforms tried
PortOptions == {<<"1", "8", "7", "8", "9">>, <<"8", "0">>, <<"a", "b", "c">>}

SecurityOptions == {"L1", "L2", "L3", "L9"}

BindOptions == GatewayBind \cup {"public"}

ApiKeyOptions == {KeyAnthropic, <<" ">>}

\* what promptApiKey can resolve with
PromptResults ==
    {[provider |-> "anthropic", apiKey |-> KeyAnthropic],
     [provider |-> "ollama", apiKey |-> <<>>]}

\* the options tried: every security level, port, bind and mode with the key
\* given on the command line, and every way of giving the key and the
\* platforms under the default level, port and bind
OptsSet ==
    {[security |-> sec, port |-> port, docker |-> dk, dryRun |-> dr,
      apiKey |-> KeyAnthropic] @@ b :
        sec \in SecurityOptions, port \in PortOptions, dk \in BOOLEAN, dr \in BOOLEAN,
        b \in {[x \in {} |-> 0]} \cup {[bind |-> v] : v \in BindOptions}}
    \cup
    {[security |-> "", port |-> <<"1", "8", "7", "8", "9">>, docker |-> dk,
      dryRun |-> dr] @@ k @@ pl :
        dk \in BOOLEAN, dr \in BOOLEAN,
        k \in {[x \in {} |-> 0]} \cup {[apiKey |-> v] : v \in ApiKeyOptions},
        pl \in {[x \in {} |-> 0], [platforms |-> <<"telegram", "bogus", "webchat">>]}}

Init ==
    /\ pc = "build"
    /\ opts \in OptsSet
    /\ \E h \in Hosts({d \in DisksOver({".env"}) :
                          d.exists => d.mode \in {448, 493, 384}}) :
          isWin = h.win /\ disk = h.disk
    /\ config = None
    /\ secrets = None
    /\ files = None
    /\ securityLevels = NullLevels
    /\ calls = <<>>
    /\ written = NoTexts
    /\ applied = <<>>
    /\ report = None
    /\ inResults = <<>>
    /\ outResults = None
    /\ verified = None
    /\ log = <<>>
    /\ docker = [start |-> "none", healthy |-> "none"]
    /\ result = None
    /\ tampered = FALSE
    /\ wait = None
    /\ env = None

\* steps 3-5: the key and provider, the channels, the config
Build ==
    /\ pc = "build"
    /\ \E llm \in (IF "apiKey" \in DOMAIN opts /\ Len(opts.apiKey) > 0
                   THEN {[provider |-> (LET v == validateApiKey(opts.apiKey) IN
                                        IF v.provider = "null" THEN "openrouter"
                                        ELSE v.provider),
                          apiKey |-> opts.apiKey]}
                   ELSE PromptResults) :
          config' = BuildConfig(opts, llm.provider, llm.apiKey,
                                IF "platforms" \in DOMAIN opts /\ Len(opts.platforms) > 0
                                THEN parseChannelIds(opts.platforms)
                                ELSE <<"webchat">>)
    /\ pc' = "secrets"
    /\ UNCHANGED <<opts, wait, env, isWin, secrets, disk, files, report, inResults, outResults,
                   verified, log, docker, result, tampered,
                   securityLevels, calls, written, applied>>

\* step 6
GenerateSecrets ==
    /\ pc = "secrets"
    /\ secrets' \in GeneratedSecretsSet
    /\ pc' = "render"
    /\ log' = Append(log, "secrets")
    /\ UNCHANGED <<opts, wait, env, isWin, config, disk, files, report, inResults, outResults,
                   verified, docker, result, tampered,
                   securityLevels, calls, written, applied>>

\* (mutant) the --dry-run flag is not looked at
Render_IgnoreDryRun ==
    /\ pc = "render"
    /\ \E imported \in BOOLEAN :
          LET g == generateOpenClawConfig(config, secrets, securityLevels, imported) IN
          /\ files' = g.files
          /\ securityLevels' = g.securityLevels
    /\ log' = Append(log, "render")
    /\ pc' = "mkdir"
    /\ UNCHANGED <<opts, wait, env, isWin, config, secrets, disk, report, inResults, outResults,
                   verified, docker, result, tampered, calls, written, applied>>

\* steps 7 and 8: render, then return at once on --dry-run
Render ==
    /\ pc = "render"
    /\ \E imported \in BOOLEAN :
          LET g == generateOpenClawConfig(config, secrets, securityLevels, imported) IN
          /\ files' = g.files
          /\ securityLevels' = g.securityLevels
    /\ log' = Append(log, "render")
    /\ pc' = IF opts.dryRun THEN "returned" ELSE "mkdir"
    /\ UNCHANGED <<opts, wait, env, isWin, config, secrets, disk, report, inResults, outResults,
                   verified, docker, result, tampered, calls, written, applied>>

\* step 9, first await
MakeDir ==
    /\ pc = "mkdir"
    /\ disk' = Mkdir(disk)
    /\ log' = Append(log, "mkdir")
    /\ pc' = "write_json"
    /\ UNCHANGED <<opts, wait, env, isWin, config, secrets, files, report, inResults, outResults,
                   verified, docker, result, tampered,
                   securityLevels, calls, written, applied>>

\* step 9, one writeFile: the optional artifacts are written only if rendered
WriteStep(at, name, next) ==
    /\ pc = at
    /\ IF FileKey[name] \in DOMAIN files
       THEN LET w == WriteFile(disk, name) IN
            /\ disk' = w.disk
            /\ written' = IF w.threw THEN written
                          ELSE [n \in DOMAIN written \cup {name} |->
                                   IF n = name THEN files[FileKey[name]] ELSE written[n]]
            /\ pc' = IF w.threw THEN "failed" ELSE next
            /\ log' = Append(log, IF w.threw THEN "error" ELSE name)
       ELSE /\ pc' = next
            /\ UNCHANGED <<disk, log, written>>
    /\ UNCHANGED <<opts, wait, env, isWin, config, secrets, files, report, inResults, outResults,
                   verified, docker, result, tampered, securityLevels, calls, applied>>

\* (mutant) the run goes from the last write straight to the docker step
WriteFiles_ThenDocker ==
    \/ WriteStep("write_json", "openclaw.json", "write_env")
    \/ WriteStep("write_env", ".env", "write_compose")
    \/ WriteStep("write_compose", "docker-compose.yml", "write_caddy")
    \/ WriteStep("write_caddy", "Caddyfile", "docker")

WriteFiles ==
    \/ WriteStep("write_json", "openclaw.json", "write_env")
    \/ WriteStep("write_env", ".env", "write_compose")
    \/ WriteStep("write_compose", "docker-compose.yml", "write_caddy")
    \/ WriteStep("write_caddy", "Caddyfile", "chmod")

\* step 10
SetPermissions ==
    /\ pc = "chmod"
    /\ LET set == setSecurePermissions(isWin, disk, config.securityLevel) IN
       /\ disk' = set.disk
       /\ pc' = IF set.threw THEN "failed" ELSE "docker"
       /\ log' = Append(log, IF set.threw THEN "error" ELSE "chmod")
    /\ UNCHANGED <<opts, wait, env, isWin, config, secrets, files, report, inResults, outResults,
                   verified, docker, result, tampered,
                   securityLevels, calls, written, applied>>

\* step 11: ContainerManager.start() resolves with success true or false
DockerStart ==
    /\ pc = "docker"
    /\ IF config.deployment.mode = "docker"
       THEN /\ \E ok \in BOOLEAN :
                  docker' = [docker EXCEPT !.start = IF ok THEN "ok" ELSE "failed"]
            /\ log' = Append(log, "docker_start")
       ELSE UNCHANGED <<docker, log>>
    /\ pc' = "health"
    /\ UNCHANGED <<opts, wait, env, isWin, config, secrets, disk, files, report, inResults,
                   outResults, verified, result, tampered,
                   securityLevels, calls, written, applied>>

\* step 12: waitForHealthy resolves with true or, at the deadline, false
HealthWait ==
    /\ pc = "health"
    /\ IF config.deployment.mode = "docker"
       THEN /\ \E healthy \in BOOLEAN :
                  docker' = [docker EXCEPT !.healthy = IF healthy THEN "yes" ELSE "timeout"]
            /\ log' = Append(log, "health_wait")
       ELSE UNCHANGED <<docker, log>>
    /\ pc' = "audit"
    /\ UNCHANGED <<opts, wait, env, isWin, config, secrets, disk, files, report, inResults,
                   outResults, verified, result, tampered,
                   securityLevels, calls, written, applied>>

\* (mutant) only critical findings make runInit call auto-fix
Fixable_CriticalOnly(results) ==
    SelectSeq(results, LAMBDA r : r.autoFixable /\ r.severity = "critical")

\* report.results.filter((r) => r.autoFixable && r.severity !== 'pass')
Fixable(results) == SelectSeq(results, LAMBDA r : r.autoFixable /\ r.severity # "pass")

\* step 13, first half: the audit, and whether auto-fix is to run; a removal
\* that raced the audit is over when it returns
Audit ==
    /\ pc = "audit"
    /\ LET a == runSecurityAudit(config, secrets, isWin, disk) IN
       IF a.threw
       THEN /\ pc' = "failed"
            /\ log' = Append(log, "error")
            /\ UNCHANGED report
       ELSE /\ report' = a.report
            /\ log' = Append(log, "audit")
            /\ pc' = IF Len(Fixable(a.report.results)) > 0 THEN "autofix" ELSE "finish"
    /\ disk' = Settled(disk)
    /\ UNCHANGED <<opts, wait, env, isWin, config, secrets, files, inResults, outResults,
                   verified, docker, result, tampered,
                   securityLevels, calls, written, applied>>

\* step 13, second half: lines 265-267
AutoFix ==
    /\ pc = "autofix"
    /\ LET f == autoFixAuditResults(report.results, config, isWin, disk) IN
       /\ disk' = f.disk
       /\ IF f.threw
          THEN /\ pc' = "failed"
               /\ log' = Append(log, "error")
               /\ UNCHANGED report
          ELSE /\ report' = [report EXCEPT
                               !.results = f.results,
                               !.autoFixedCount = FixedCount(f.results)]
               /\ log' = Append(log, "autofix")
               /\ pc' = "finish"
    /\ UNCHANGED <<opts, wait, env, isWin, config, secrets, files, inResults, outResults, verified,
                   docker, result, tampered,
                   securityLevels, calls, written, applied>>

\* step 15: the DeploymentResult
Finish ==
    /\ pc = "finish"
    /\ result' =
          [success |-> TRUE,
           gatewayUrl |-> <<resolveBindAddress(config.gateway.bind), config.gateway.port>>,
           gatewayToken |-> secrets.gatewayToken,
           errors |-> <<>>,
           warnings |-> LET unfixed == SelectSeq(report.results,
                                          LAMBDA r : r.severity = "warning" /\ ~IsFixed(r))
                        IN  [i \in 1..Len(unfixed) |-> unfixed[i].message],
           auditResults |-> report.results]
    /\ log' = Append(log, "success")
    /\ pc' = "done"
    /\ UNCHANGED <<opts, wait, env, isWin, config, secrets, disk, files, report, inResults,
                   outResults, verified, docker, tampered,
                   securityLevels, calls, written, applied>>

Next ==
    \/ Build
    \/ GenerateSecrets
    \/ Render
    \/ MakeDir
    \/ WriteFiles
    \/ SetPermissions
    \/ DockerStart
    \/ HealthWait
    \/ Audit
    \/ AutoFix
    \/ Finish

Spec == Init /\ [][Next]_vars

---------------------------------------------------------------------------
(* SpecHostile: runInit while another process may change the install       *)
(* directory once, between the health wait and the audit                   *)

\* the directory removed, or its mode or a file's mode changed, or a file
\* being removed while the audit reads the directory
TamperedDisks ==
    {MissingDir} \cup
    {[exists |-> TRUE, mode |-> m, owned |-> TRUE, files |-> f] :
        m \in {448, 493, 192},
        f \in {[n \in {".env", "openclaw.json"} |-> 384],
               [n \in {".env", "openclaw.json"} |-> IF n = ".env" THEN 420 ELSE 384]}}
    \cup
    {[exists |-> TRUE, mode |-> 448, owned |-> TRUE,
      files |-> [n \in {".env", "openclaw.json"} |-> IF n = g THEN Gone ELSE 384]] :
        g \in {".env", "openclaw.json"}}

Tamper ==
    /\ pc = "audit"
    /\ ~tampered
    /\ ~isWin
    /\ tampered' = TRUE
    /\ disk' \in TamperedDisks
    /\ UNCHANGED <<pc, opts, wait, env, isWin, config, secrets, files, report, inResults,
                   outResults, verified, log, docker, result,
                   securityLevels, calls, written, applied>>

NextHostile == Next \/ Tamper

SpecHostile == Init /\ [][NextHostile]_vars

---------------------------------------------------------------------------
(* SpecRender: generateOpenClawConfig called directly, up to MaxCalls times *)
(* in one process, on one config and on secrets drawn for each call        *)

TelegramToken == <<"7", "1", ":", "A", "b", "Q">>

\* the llm section: a key-based provider, the same with hybrid routing, and
\* the local backend with and without its own section
LlmSamples ==
    {[provider |-> "anthropic", apiKey |-> KeyAnthropic, model |-> "claude-opus-4-6"],
     [provider |-> "openai", apiKey |-> <<"s", "k", "-", "9">>, model |-> "gpt",
      routing |-> [mode |-> "hybrid", primary |-> "openai", fallback |-> "ollama",
                   rules |-> <<"code">>]],
     [provider |-> "ollama", apiKey |-> <<>>, model |-> "llama3.3:70b"],
     [provider |-> "ollama", apiKey |-> <<>>, model |-> "llama3.3:70b",
      ollama |-> [baseUrl |-> "http://localhost:11434", model |-> "llama3.1:8b",
                  keepAlive |-> "5m"]]}

\* the channels: webchat alone, and channels that carry a token
ChannelSamples ==
    {<<[id |-> "webchat", enabled |-> TRUE]>>,
     <<[id |-> "webchat", enabled |-> TRUE],
       [id |-> "telegram", enabled |-> TRUE, token |-> TelegramToken,
        config |-> <<<<"mode", "polling">>>>],
       [id |-> "discord", enabled |-> FALSE, token |-> <<"d", "1">>]>>}

\* the optional sections: none, or TLS and training both enabled
ExtraSamples ==
    {[x \in {} |-> 0],
     [tls |-> [enabled |-> TRUE, domain |-> "claw.example.org", email |-> "op@example.org"],
      training |-> [enabled |-> TRUE, dataDir |-> "~/.openclaw/training",
                    autoCollect |-> TRUE, minEntriesForTraining |-> 500,
                    autoTrain |-> FALSE, baseModel |-> "llama3.1:8b"]]}

RenderConfigs ==
    {[llm |-> llm, channels |-> chs, securityLevel |-> level,
      gateway |-> [bind |-> bind, port |-> GATEWAY_PORT],
      deployment |-> [mode |-> mode, workspace |-> "~/.openclaw/workspace",
                      installDir |-> InstallDir]] @@ extra :
        llm \in LlmSamples, chs \in ChannelSamples, level \in SecurityOptions,
        bind \in GatewayBind, mode \in {"docker", "native"}, extra \in ExtraSamples}

\* two GeneratedSecrets that differ in both values
RenderSecrets ==
    {[gatewayToken |-> ToHex([i \in 1..SecretBytes |-> b]),
      masterEncryptionKey |-> ToHex([i \in 1..SecretBytes |-> 255 - b])] : b \in {10, 171}}

InitRender ==
    /\ pc = "call_generate"
    /\ Idle
    /\ wait = None
    /\ env = None
    /\ isWin = FALSE
    /\ disk = MissingDir
    /\ config \in RenderConfigs
    /\ secrets = None
    /\ report = None
    /\ inResults = <<>>
    /\ outResults = None
    /\ verified = None

\* one call: the import resolves or not, the cache is left as the call
\* leaves it, the files are returned
CallGenerate ==
    /\ pc = "call_generate"
    /\ Len(calls) < MaxCalls
    /\ \E s \in RenderSecrets, imported \in BOOLEAN :
          LET g == generateOpenClawConfig(config, s, securityLevels, imported) IN
          /\ secrets' = s
          /\ files' = g.files
          /\ securityLevels' = g.securityLevels
          /\ calls' = Append(calls, [secrets |-> s, files |-> g.files])
    /\ UNCHANGED <<pc, opts, wait, env, isWin, config, disk, written, applied, report, inResults,
                   outResults, verified, log, docker, result, tampered>>

NextRender == CallGenerate

SpecRender == InitRender /\ [][NextRender]_vars

---------------------------------------------------------------------------
(* SpecPermissions: setSecurePermissions applied to one directory up to    *)
(* MaxApplications times in a row, verifyPermissions called after each     *)

InitPermissions ==
    /\ pc = "set"
    /\ Idle
    /\ wait = None
    /\ env = None
    /\ \E h \in Hosts(DisksOver({".env", "docker-compose.yml", "openclaw.json"})) :
          isWin = h.win /\ disk = h.disk
    /\ \E level \in SecurityLevel : config = ConfigOf(level, "loopback")
    /\ secrets = None
    /\ report = None
    /\ inResults = <<>>
    /\ outResults = None
    /\ verified = None

\* one application; a rejected one ends the sequence
ApplyPermissions ==
    /\ pc = "set"
    /\ Len(applied) < MaxApplications
    /\ LET set == setSecurePermissions(isWin, disk, config.securityLevel) IN
       /\ disk' = set.disk
       /\ pc' = IF set.threw THEN "set_threw" ELSE "verify"
       /\ applied' = IF set.threw THEN applied
                      ELSE Append(applied, [before |-> disk, disk |-> set.disk,
                                            verified |-> None])
    /\ UNCHANGED <<opts, wait, env, isWin, config, secrets, files, securityLevels, calls, written,
                   report, inResults, outResults, verified, log, docker, result,
                   tampered>>

\* verifyPermissions on the directory as the application left it
VerifyApplied ==
    /\ pc = "verify"
    /\ verified' = verifyPermissions(isWin, disk)
    /\ applied' = [applied EXCEPT ![Len(applied)].verified = verified']
    /\ pc' = "set"
    /\ UNCHANGED <<opts, wait, env, isWin, config, secrets, disk, files, securityLevels, calls,
                   written, report, inResults, outResults, log, docker, result, tampered>>

NextPermissions == ApplyPermissions \/ VerifyApplied

SpecPermissions == InitPermissions /\ [][NextPermissions]_vars

---------------------------------------------------------------------------
(* SpecHealth: waitForHealthy, src/unnamed/part_006 (docker/health-check.ts), *)
(* called with a timeout and an interval counted in clock ticks; each health *)
(* check and each timer takes the time the host gives it.  The event loop    *)
(* runs every timer and settles every fetch (checkHealth aborts its own),    *)
(* hence the weak fairness of the steps.                                     *)

\* the largest timeoutMs and intervalMs a call is made with
MaxTimeout == 4

MaxInterval == 3

\* the longest a health check takes before its own abort timer ends it
MaxFetch == 2

\* how late a timer may fire
MaxLate == 1

Min(a, b) == IF a < b THEN a ELSE b

Max(a, b) == IF a > b THEN a ELSE b

\* what fetch settles with: a 2xx response, another status, or a rejection
\* (connection refused, aborted by the timer)
FetchOutcomes == {"ok", "status", "rejected"}

checkHealth(response) ==
    IF response = "ok" THEN [healthy |-> TRUE]
    ELSE IF response = "status" THEN [healthy |-> FALSE, error |-> "HTTP status"]
    ELSE [healthy |-> FALSE, error |-> "message"]

\* (mutant) a check is still started at the deadline itself
BeforeDeadline_Inclusive(now, deadline) == now <= deadline

\* Date.now() < deadline
BeforeDeadline(now, deadline) == now < deadline

\* setTimeout(resolve, ms): a delay below one tick is one tick
TimerTicks(ms) == IF ms < 1 THEN 1 ELSE ms

InitHealth ==
    /\ pc = "wait_test"
    /\ Idle
    /\ env = None
    /\ isWin = FALSE
    /\ disk = MissingDir
    /\ config = ConfigOf("L2", "loopback")
    /\ secrets = None
    /\ report = None
    /\ inResults = <<>>
    /\ outResults = None
    /\ verified = None
    /\ \E timeoutMs \in (-1)..MaxTimeout, intervalMs \in 0..MaxInterval :
          wait = [timeoutMs |-> timeoutMs, intervalMs |-> intervalMs, now |-> 0,
                  deadline |-> 0 + timeoutMs, checks |-> <<>>, remaining |-> 0,
                  returned |-> "pending"]

\* the while condition; return false when it fails
LoopTest ==
    /\ pc = "wait_test"
    /\ IF BeforeDeadline(wait.now, wait.deadline)
       THEN /\ pc' = "wait_check"
            /\ UNCHANGED wait
       ELSE /\ pc' = "wait_returned"
            /\ wait' = [wait EXCEPT !.returned = "false"]
    /\ UNCHANGED <<opts, env, isWin, config, secrets, disk, files, securityLevels, calls,
                   written, applied, report, inResults, outResults, verified, log,
                   docker, result, tampered>>

\* await checkHealth, return true if healthy, else compute remaining and
\* break if none is left
HealthCheck ==
    /\ pc = "wait_check"
    /\ \E took \in 0..MaxFetch, response \in FetchOutcomes :
          LET end == wait.now + took
              healthy == checkHealth(response).healthy
              remaining == wait.deadline - end
              after == [wait EXCEPT
                           !.now = end,
                           !.checks = Append(@, [start |-> wait.now, end |-> end,
                                                 healthy |-> healthy])]
          IN  IF healthy
              THEN /\ wait' = [after EXCEPT !.returned = "true"]
                   /\ pc' = "wait_returned"
              ELSE IF remaining <= 0
              THEN /\ wait' = [after EXCEPT !.remaining = remaining, !.returned = "false"]
                   /\ pc' = "wait_returned"
              ELSE /\ wait' = [after EXCEPT !.remaining = remaining]
                   /\ pc' = "wait_sleep"
    /\ UNCHANGED <<opts, env, isWin, config, secrets, disk, files, securityLevels, calls,
                   written, applied, report, inResults, outResults, verified, log,
                   docker, result, tampered>>

\* await setTimeout(resolve, Math.min(intervalMs, remaining))
Sleep ==
    /\ pc = "wait_sleep"
    /\ \E late \in 0..MaxLate :
          wait' = [wait EXCEPT
                      !.now = @ + TimerTicks(Min(wait.intervalMs, wait.remaining)) + late]
    /\ pc' = "wait_test"
    /\ UNCHANGED <<opts, env, isWin, config, secrets, disk, files, securityLevels, calls,
                   written, applied, report, inResults, outResults, verified, log,
                   docker, result, tampered>>

NextHealth == LoopTest \/ HealthCheck \/ Sleep

SpecHealth == InitHealth /\ [][NextHealth]_vars /\ WF_vars(NextHealth)

---------------------------------------------------------------------------
(* SpecDetect: detectEnvironment, src/src/core/detect/environment.ts, on a  *)
(* host described by what each probe finds; the six probes are started     *)
(* together and settle in any order                                        *)

Probes == {"docker", "port", "install", "wsl", "systemd", "tailscale"}

\* a promise that has not settled yet
Pending == [pending |-> TRUE]

Resolved(value) == [rejected |-> FALSE, value |-> value]

Rejected == [rejected |-> TRUE]

\* detectDocker: exec('docker', ['--version']) rejects, or prints a line the
\* pattern matches or does not; compose is asked for only if docker is there
detectDocker(versionExec, composeExec) ==
    LET available == versionExec = "Docker version 24.0.7, build afdd53b"
    IN  Resolved([available |-> available,
                  version |-> IF available THEN "24.0.7" ELSE Undefined,
                  composeAvailable |-> available /\ composeExec = "resolved"])

\* MAX_ATTEMPTS and the default startPort of findFreePort
MAX_ATTEMPTS == 100

StartPort == 18789

\* findFreePort: the first of the MAX_ATTEMPTS ports from startPort that can
\* be listened on, an Error if there is none
findFreePort(occupied) ==
    LET free == {i \in 0..(MAX_ATTEMPTS - 1) : StartPort + i \notin occupied}
    IN  IF free = {} THEN Rejected
        ELSE Resolved(StartPort + (CHOOSE i \in free : \A j \in free : i <= j))

\* detectExistingInstall: homedir() may throw; else the first known
\* directory that exists, else the first binary found on the PATH
detectExistingInstall(home) ==
    IF home.homedir = "throws" THEN Rejected
    ELSE IF ".openclaw" \in home.dirs THEN Resolved([found |-> TRUE, path |-> "~/.openclaw"])
    ELSE IF ".clawdbot" \in home.dirs THEN Resolved([found |-> TRUE, path |-> "~/.clawdbot"])
    ELSE IF "openclaw" \in home.bins
    THEN Resolved([found |-> TRUE, path |-> "/usr/bin/openclaw"])
    ELSE IF "clawdbot" \in home.bins
    THEN Resolved([found |-> TRUE, path |-> "/usr/bin/clawdbot"])
    ELSE Resolved([found |-> FALSE])

\* detectWSL: the environment variable, else /proc/version if readable
detectWSL(distroName, procVersion) ==
    IF distroName # "" THEN Resolved(TRUE)
    ELSE IF procVersion = "unreadable" THEN Resolved(FALSE)
    ELSE Resolved(procVersion = "Linux version 5.15 microsoft-standard-WSL2")

\* detectSystemd and detectTailscale: whether the exec resolves
detectSystemd(systemctlExec) == Resolved(systemctlExec = "resolved")

detectTailscale(tailscaleExec) == Resolved(tailscaleExec = "resolved")

detectOS(platform) ==
    IF platform = "darwin" THEN "macos"
    ELSE IF platform = "win32" THEN "windows-wsl"
    ELSE "linux"

\* the promise each probe returns on a host
ProbeOutcome(p, h) ==
    CASE p = "docker" -> detectDocker(h.dockerVersion, h.dockerCompose)
      [] p = "port" -> findFreePort(h.occupied)
      [] p = "install" -> detectExistingInstall(h.home)
      [] p = "wsl" -> detectWSL(h.distroName, h.procVersion)
      [] p = "systemd" -> detectSystemd(h.systemctl)
      [] p = "tailscale" -> detectTailscale(h.tailscale)

\* the value each .catch handler of the Promise.all list returns
CatchDefault(p) ==
    CASE p = "docker" -> [available |-> FALSE, version |-> Undefined,
                          composeAvailable |-> FALSE]
      [] p = "port" -> 18789
      [] p = "install" -> [found |-> FALSE]
      [] p \in {"wsl", "systemd", "tailscale"} -> FALSE

\* (mutant) the rejection is passed on
Caught_Rethrown(outcome, default) == outcome

\* promise.catch(() => default)
Caught(outcome, default) == IF outcome.rejected THEN Resolved(default) ELSE outcome

\* lines 82-116 on the six settled promises: Promise.all rejects if one of
\* them did, else the object is built
Assemble(settled, h) ==
    IF \E p \in Probes : settled[p].rejected THEN Rejected
    ELSE LET docker_ == settled["docker"].value
             existingInstall == settled["install"].value
             isWSL == settled["wsl"].value
         IN  Resolved(
                 [os |-> IF isWSL THEN "windows-wsl" ELSE detectOS(h.platform),
                  dockerAvailable |-> docker_.available,
                  dockerVersion |-> docker_.version,
                  dockerComposeAvailable |-> docker_.composeAvailable,
                  freePort |-> settled["port"].value,
                  shell |-> h.shell,
                  nodeVersion |-> h.nodeVersion,
                  existingInstall |-> IF existingInstall.found THEN existingInstall.path
                                      ELSE Undefined,
                  hasSystemd |-> settled["systemd"].value,
                  availableMemoryMB |-> h.freemem \div (1024 * 1024),
                  cpuCount |-> h.cpus,
                  isWSL |-> isWSL,
                  isTailscaleAvailable |-> settled["tailscale"].value])

\* detectEnvironment on a host, whatever the order the probes settle in
detectEnvironment(h) ==
    Assemble([p \in Probes |-> Caught(ProbeOutcome(p, h), CatchDefault(p))], h)

ExecOutcomes == {"resolved", "rejected"}

\* the hosts tried: every combination of what the six probes can find
DetectHosts ==
    {[dockerVersion |-> dv, dockerCompose |-> dc, occupied |-> occ, home |-> hm,
      distroName |-> wsl.distroName, procVersion |-> wsl.procVersion,
      systemctl |-> sc, tailscale |-> ts, platform |-> pf,
      shell |-> "bash", nodeVersion |-> "v20.11.0", freemem |-> 1073741824, cpus |-> 8] :
        dv \in {"rejected", "Docker version 24.0.7, build afdd53b", "command not found"},
        dc \in ExecOutcomes,
        occ \in {{}, {StartPort}, StartPort..(StartPort + MAX_ATTEMPTS - 2),
                 StartPort..(StartPort + MAX_ATTEMPTS - 1)},
        hm \in {[homedir |-> "throws", dirs |-> {}, bins |-> {}],
                [homedir |-> "/home/u", dirs |-> {}, bins |-> {}],
                [homedir |-> "/home/u", dirs |-> {".clawdbot"}, bins |-> {"openclaw"}],
                [homedir |-> "/home/u", dirs |-> {}, bins |-> {"clawdbot"}]},
        wsl \in {[distroName |-> "Ubuntu", procVersion |-> "unreadable"],
                 [distroName |-> "", procVersion |-> "unreadable"],
                 [distroName |-> "",
                  procVersion |-> "Linux version 5.15 microsoft-standard-WSL2"]},
        sc \in ExecOutcomes, ts \in ExecOutcomes, pf \in {"linux", "darwin"}}

InitDetect ==
    /\ pc = "detect_probing"
    /\ Idle
    /\ wait = None
    /\ isWin = FALSE
    /\ disk = MissingDir
    /\ config = None
    /\ secrets = None
    /\ report = None
    /\ inResults = <<>>
    /\ outResults = None
    /\ verified = None
    /\ \E h \in DetectHosts :
          env = [host |-> h, settled |-> [p \in Probes |-> Pending], result |-> Pending]

\* one of the promises of the Promise.all list settles
SettleProbe ==
    /\ pc = "detect_probing"
    /\ \E p \in Probes :
          /\ env.settled[p] = Pending
          /\ env' = [env EXCEPT
                        !.settled[p] = Caught(ProbeOutcome(p, env.host), CatchDefault(p))]
    /\ UNCHANGED <<pc, opts, wait, isWin, config, secrets, disk, files, securityLevels,
                   calls, written, applied, report, inResults, outResults, verified, log,
                   docker, result, tampered>>

\* all six have settled: the rest of detectEnvironment runs
ResolveDetect ==
    /\ pc = "detect_probing"
    /\ \A p \in Probes : env.settled[p] # Pending
    /\ env' = [env EXCEPT !.result = Assemble(env.settled, env.host)]
    /\ pc' = "detect_settled"
    /\ UNCHANGED <<opts, wait, isWin, config, secrets, disk, files, securityLevels,
                   calls, written, applied, report, inResults, outResults, verified, log,
                   docker, result, tampered>>

NextDetect == SettleProbe \/ ResolveDetect

SpecDetect == InitDetect /\ [][NextDetect]_vars

---------------------------------------------------------------------------
(* Properties *)

AuditOrder == <<"gateway-auth", "token-entropy", "bind-address", "file-permissions",
                "dm-policy", "sandbox-enabled", "mdns-mode", "log-redaction">>

SeveritiesOf(results) == {results[i].severity : i \in 1..Len(results)}

\* C1 (under SpecStatus): for every list of eight check results the
\* aggregation yields critical if any result is critical, else warning if
\* any is warning, else pass; info findings alone leave the status at pass.
C1_OverallStatus ==
    pc = "end" =>
        /\ Len(report.results) = 8
        /\ report.overallStatus =
              (IF "critical" \in SeveritiesOf(report.results) THEN "critical"
               ELSE IF "warning" \in SeveritiesOf(report.results) THEN "warning"
               ELSE "pass")
        /\ (SeveritiesOf(report.results) \subseteq {"info", "pass"}
               => report.overallStatus = "pass")

C1_Witness ==
    /\ pc = "end"
    /\ SeveritiesOf(report.results) = {"info", "pass"}
    /\ report.overallStatus = "pass"

\* C2 (under Spec): the pipeline never renders or writes a file when the
\* resolved DeploymentConfig fails schema validation.  The code does not
\* call the validation at all, so this statement is violated.
C2_NoRenderOnInvalidConfig ==
    (files # None \/ "render" \in Range(log) \/ "openclaw.json" \in Range(log))
        => validateDeploymentConfig(config)

\* C3 (under SpecAudit): every report runSecurityAudit returns holds exactly
\* eight results, one per check, in the registration order, whatever the
\* severity of the earlier results.
C3_EightResultsInOrder ==
    report # None =>
        /\ Len(report.results) = 8
        /\ \A i \in 1..8 : report.results[i].check = AuditOrder[i]

C3_Witness ==
    /\ report # None
    /\ Len(report.results) = 8
    /\ report.results[1].severity = "critical"
    /\ report.results[3].severity = "critical"
    /\ report.results[8].check = "log-redaction"

\* C4 (under SpecAudit): for a missing or empty gatewayToken the audit
\* returns a report whose gateway-auth result is critical, and for a
\* non-empty token one whose gateway-auth result is pass.  A missing token
\* makes checkTokenEntropy throw, so no report is returned: violated.
C4_GatewayAuthReported ==
    pc # "call_audit" =>
        /\ report # None
        /\ report.results[1].check = "gateway-auth"
        /\ report.results[1].severity =
              (IF ~HasToken(secrets) \/ Len(secrets.gatewayToken) = 0
               THEN "critical" ELSE "pass")

\* C5 (under SpecAudit): the token-entropy result is critical exactly when
\* the token's length in hex characters, halved, is below 32, and pass
\* otherwise; for a token of 32 hex characters the message reports 16 bytes
\* and the overall status is critical.
C5_TokenEntropy ==
    report # None =>
        LET n == Len(secrets.gatewayToken)
            r == report.results[2]
        IN  /\ r.check = "token-entropy"
            /\ r.severity = (IF n < 2 * 32 THEN "critical" ELSE "pass")
            /\ (n = 32 =>
                  /\ r.message = <<"Gateway token has ", "1", "6",
                                   " bytes of entropy, minimum is 32.">>
                  /\ report.overallStatus = "critical")

C5_Witness ==
    /\ report # None
    /\ Len(secrets.gatewayToken) = 32
    /\ report.results[2].severity = "critical"
    /\ report.overallStatus = "critical"

\* C6 (under SpecAudit): at L2 with bind custom the bind-address result is
\* critical and so is the overall status, and each of the other seven
\* results equals the one the audit gives for the same secrets and
\* directory with any other bind class.
C6_CustomBindFrame ==
    (pc = "call_autofix" /\ config.securityLevel = "L2" /\ config.gateway.bind = "custom") =>
        /\ report.results[3].check = "bind-address"
        /\ report.results[3].severity = "critical"
        /\ report.overallStatus = "critical"
        /\ \A b \in GatewayBind \ {"custom"} :
              LET other == runSecurityAudit([config EXCEPT !.gateway.bind = b],
                                            secrets, isWin, disk)
              IN  /\ ~other.threw
                  /\ other.report.results[3].severity = "pass"
                  /\ \A i \in (1..8) \ {3} : report.results[i] = other.report.results[i]

C6_Witness ==
    /\ pc = "call_autofix"
    /\ config.securityLevel = "L2"
    /\ config.gateway.bind = "custom"
    /\ report.results[3].severity = "critical"
    /\ report.results[4].severity = "critical"
    /\ report.results[2].severity = "pass"

\* the scenario of C7: a valid L2 config, a 64-character token, bind
\* loopback, the directory at 0700 and every .json/.env file in it at 0600
C7_Scenario ==
    /\ validateDeploymentConfig(config)
    /\ config.securityLevel = "L2"
    /\ config.gateway.bind = "loopback"
    /\ Len(secrets.gatewayToken) = 64
    /\ disk.exists
    /\ disk.mode = 448
    /\ \A n \in DOMAIN disk.files : IsConfigFile(n) => disk.files[n] = 384

\* C7 (under SpecHostile): in that scenario the audit step returns eight
\* pass results, overallStatus pass and autoFixedCount 0, and runInit goes
\* on to the result without calling autoFixAuditResults.
C7_AllPassNoAutoFix ==
    [][(pc = "audit" /\ C7_Scenario /\ pc' # "audit") =>
          /\ pc' = "finish"
          /\ Len(report'.results) = 8
          /\ \A i \in 1..8 : report'.results[i].severity = "pass"
          /\ report'.overallStatus = "pass"
          /\ report'.autoFixedCount = 0
          /\ "autofix" \notin Range(log')]_vars

C7_Witness ==
    /\ pc = "done"
    /\ tampered
    /\ C7_Scenario
    /\ report.overallStatus = "pass"
    /\ report.autoFixedCount = 0
    /\ "autofix" \notin Range(log)

\* a file-permissions result that carries fixed = true
FixedFilePermissions(r) == r.check = "file-permissions" /\ IsFixed(r)

\* C8 (under SpecAutoFix): autoFixAuditResults returns a file-permissions
\* result with fixed = true only when the setSecurePermissions it called
\* completed; when that call fails it returns no result list at all.
C8_FixedOnlyOnSuccess ==
    [][pc = "call_autofix" =>
          LET setFails == setSecurePermissions(isWin, disk, config.securityLevel).threw
              called == \E i \in 1..Len(inResults') :
                            /\ inResults'[i].check = "file-permissions"
                            /\ inResults'[i].autoFixable
                            /\ inResults'[i].severity # "pass"
          IN  /\ (/\ ~outResults'.threw
                  /\ \E i \in 1..Len(outResults'.results) :
                         FixedFilePermissions(outResults'.results[i]))
                    => ~setFails
              /\ (setFails /\ called) => outResults'.threw]_vars

C8_Witness ==
    /\ pc = "call_verify"
    /\ report = None
    /\ ~isWin
    /\ ~disk.exists
    /\ outResults.threw
    /\ \E i \in 1..Len(inResults) :
          /\ inResults[i].check = "file-permissions"
          /\ inResults[i].autoFixable
          /\ inResults[i].severity = "critical"

\* the audit reported the file-permissions finding, and only it, as critical
OnlyFilePermissionsCritical ==
    /\ report # None
    /\ report.results[4].check = "file-permissions"
    /\ report.results[4].severity = "critical"
    /\ \A i \in (1..8) \ {4} : report.results[i].severity = "pass"

\* C9 as stated (under SpecAudit): whenever the audit reports only the
\* file-permissions finding as critical, whatever its cause, auto-fix
\* returns that result with fixed = true and verifyPermissions then
\* reports no issue.  A missing directory refutes it.
C9_FixAlwaysRepairs ==
    (pc \in {"call_verify", "end"} /\ OnlyFilePermissionsCritical) =>
        /\ ~outResults.threw
        /\ FixedFilePermissions(outResults.results[4])
        /\ (pc = "end" => verified.valid /\ verified.issues = <<>>)

\* C9 as amended (under SpecAudit): whenever the audit reports only the
\* file-permissions finding as critical and the setSecurePermissions that
\* auto-fix calls completes, auto-fix returns that result with fixed = true
\* and verifyPermissions then reports no issue; the call completes whenever
\* the directory exists and it and its config files belong to the caller,
\* and when it fails auto-fix returns nothing.
C9_FixRepairsWhenSetCompletes ==
    (pc \in {"call_verify", "end"} /\ OnlyFilePermissionsCritical) =>
        /\ (disk.exists /\ disk.owned) => ~outResults.threw
        /\ ~outResults.threw =>
              /\ FixedFilePermissions(outResults.results[4])
              /\ (pc = "end" => verified.valid /\ verified.issues = <<>>)
        /\ outResults.threw => "results" \notin DOMAIN outResults

C9_Witness ==
    /\ pc = "end"
    /\ OnlyFilePermissionsCritical
    /\ ~outResults.threw
    /\ FixedFilePermissions(outResults.results[4])
    /\ verified.valid

\* C10 (under SpecAutoFix): every input result that is a pass, or that is
\* not auto-fixable, comes back as it was: same fields, same values, no
\* fixed flag added.
C10_PassThrough ==
    (pc \in {"call_verify", "end"} /\ ~outResults.threw) =>
        /\ Len(outResults.results) = Len(inResults)
        /\ \A i \in 1..Len(inResults) :
              (inResults[i].severity = "pass" \/ ~inResults[i].autoFixable) =>
                  /\ outResults.results[i] = inResults[i]
                  /\ DOMAIN outResults.results[i] = DOMAIN inResults[i]
                  /\ "fixed" \notin DOMAIN outResults.results[i]

C10_Witness ==
    /\ pc = "call_verify"
    /\ report = None
    /\ ~outResults.threw
    /\ Len(inResults) = 2
    /\ inResults[1].severity = "critical"
    /\ ~inResults[1].autoFixable
    /\ outResults.results[1] = inResults[1]
    /\ inResults[2].severity = "pass"
    /\ inResults[2].autoFixable
    /\ outResults.results[2] = inResults[2]

\* C11 (under SpecAutoFix): the list autoFixAuditResults returns is as long
\* as its input and has, at every position, the check id the input has
\* there, whether the result at that position was fixed or passed through.
C11_SameLengthSameChecks ==
    (pc \in {"call_verify", "end"} /\ ~outResults.threw) =>
        /\ Len(outResults.results) = Len(inResults)
        /\ [i \in 1..Len(outResults.results) |-> outResults.results[i].check]
              = [i \in 1..Len(inResults) |-> inResults[i].check]

C11_Witness ==
    /\ pc = "call_verify"
    /\ report = None
    /\ ~outResults.threw
    /\ Len(inResults) = 2
    /\ Len(outResults.results) = 2
    /\ inResults[1].check = "custom-check"
    /\ inResults[1].severity = "pass"
    /\ inResults[2].check = "file-permissions"
    /\ IsFixed(outResults.results[2])
    /\ outResults.results[1].check = "custom-check"

\* C12 (under SpecHostile): whenever the pipeline holds an AuditReport, fresh
\* from runSecurityAudit or with its results replaced by the auto-fixed
\* list, its autoFixedCount is the number of its results that carry
\* fixed = true; the fresh report has none and the count 0.
C12_AutoFixedCount ==
    report # None =>
        /\ report.autoFixedCount =
              Cardinality({i \in 1..Len(report.results) :
                              /\ "fixed" \in DOMAIN report.results[i]
                              /\ report.results[i].fixed = TRUE})
        /\ (pc \in {"autofix", "failed"} => report.autoFixedCount = 0)

C12_Witness ==
    /\ pc = "done"
    /\ report.autoFixedCount = 2
    /\ "fixed" \in DOMAIN report.results[3] /\ report.results[3].fixed
    /\ "fixed" \in DOMAIN report.results[4] /\ report.results[4].fixed
    /\ "fixed" \notin DOMAIN report.results[1]
    /\ result.auditResults = report.results

\* C13 as stated (under Spec): in docker mode, once the files are written
\* and the permissions set, the run is never aborted: whatever start() and
\* waitForHealthy give, it goes through the audit to the DeploymentResult
\* with success = true.  A security level outside the catalog on win32
\* refutes it: the permissions step is a no-op there and the audit throws.
C13_NoAbortAfterPermissions ==
    (/\ config # None
     /\ config.deployment.mode = "docker"
     /\ "chmod" \in Range(log))
        => /\ pc # "failed"
           /\ (pc = "done" => result.success /\ "audit" \in Range(log))

\* the value of OPENCLAW_GATEWAY_TOKEN read back from an env file text
EnvToken(text) ==
    LET at == CHOOSE i \in 1..Len(text) :
                  text[i] # <<>> /\ text[i][1] = "OPENCLAW_GATEWAY_TOKEN="
    IN  Tail(text[at])

\* C14 (under Spec): the secrets, once generated, are never replaced during
\* the run; the token read back from the .env file the run wrote, the token
\* the audit's token-entropy finding is about, and the token returned in the
\* DeploymentResult are all the gatewayToken generated at step 6, also after
\* auto-fix has run.
C14_SecretsGeneratedOnce ==
    [][/\ (secrets # None => secrets' = secrets)
       /\ (".env" \in DOMAIN written' =>
              EnvToken(written'[".env"]) = secrets'.gatewayToken)
       /\ ((report' # None /\ ".env" \in DOMAIN written') =>
              report'.results[2].message =
                  checkTokenEntropy([gatewayToken |-> EnvToken(written'[".env"])]).message)
       /\ (result' # None =>
              /\ result'.gatewayToken = secrets'.gatewayToken
              /\ result'.gatewayToken = EnvToken(written'[".env"]))]_vars

C14_Witness ==
    /\ pc = "done"
    /\ "autofix" \in Range(log)
    /\ report.autoFixedCount > 0
    /\ Len(result.gatewayToken) = 64
    /\ result.gatewayToken = EnvToken(written[".env"])
    /\ result.gatewayToken = secrets.gatewayToken

\* C15 (under SpecRender): every openclaw.json rendered carries the literal
\* ${OPENCLAW_GATEWAY_TOKEN} as gateway.auth.token, and the call made with
\* any other secrets on the same config returns the same files key by key
\* except envFile, which differs exactly when the gateway tokens differ.
C15_TokenPlaceholderOnly ==
    [][calls' # calls =>
          /\ \E i \in 1..(Len(files'.openclawJson) - 2) :
                /\ files'.openclawJson[i] = <<"    ", "\"", "auth", "\": ", "{">>
                /\ files'.openclawJson[i + 2] =
                      <<"      ", "\"", "token", "\": ",
                        "\"", "${OPENCLAW_GATEWAY_TOKEN}", "\"">>
          /\ \A s2 \in RenderSecrets :
                LET twin == generateOpenClawConfig(config, s2, securityLevels,
                                                   securityLevels' # NullLevels).files
                IN  /\ DOMAIN twin = DOMAIN files'
                    /\ \A k \in DOMAIN files' \ {"envFile"} : twin[k] = files'[k]
                    /\ (twin.envFile # files'.envFile)
                          <=> (s2.gatewayToken # secrets'.gatewayToken)]_vars

C15_Witness ==
    /\ Len(calls) = 2
    /\ calls[1].secrets.gatewayToken # calls[2].secrets.gatewayToken
    /\ "dockerComposeYml" \in DOMAIN calls[1].files
    /\ calls[1].files.openclawJson = calls[2].files.openclawJson
    /\ calls[1].files.dockerComposeYml = calls[2].files.dockerComposeYml
    /\ calls[1].files.envFile # calls[2].files.envFile

\* whether the characters of value stand in a row in some line of text
Occurs(value, text) ==
    \E i \in 1..Len(text) :
        \E k \in 1..(Len(text[i]) - Len(value) + 1) :
            SubSeq(text[i], k, k + Len(value) - 1) = value

\* the secret values a call of the renderer is given
SecretValues(cfg, s) ==
    {s.gatewayToken, s.masterEncryptionKey}
        \cup (IF Len(cfg.llm.apiKey) > 0 THEN {cfg.llm.apiKey} ELSE {})
        \cup {cfg.channels[i].token :
                 i \in {j \in 1..Len(cfg.channels) : TruthyChars(cfg.channels[j], "token")}}

\* C16 as stated (under SpecRender): none of the secret values given to the
\* renderer (gateway token, master key, provider API key, channel tokens)
\* stands as a literal in openclawJson, dockerComposeYml or the Caddyfile.
\* An enabled channel that carries a token refutes it.
C16_SecretsOnlyInEnv ==
    files # None =>
        \A k \in DOMAIN files \ {"envFile"} :
            \A v \in SecretValues(config, secrets) : ~Occurs(v, files[k])

\* C19 as stated (under SpecRender): any two calls made in one process with
\* the same config and the same secrets return the same files, whatever the
\* dynamic import did on the earlier call.  An import that fails on one call
\* and resolves on a later one refutes it.
C19_Deterministic ==
    \A i, j \in 1..Len(calls) :
        calls[i].secrets = calls[j].secrets => calls[i].files = calls[j].files

\* the host part of the port mapping of a docker-compose text
PortMappingHost(text) ==
    LET at == CHOOSE i \in 1..Len(text) : text[i] = <<"    ports:">>
    IN  text[at + 1][2]

\* C20 as stated (under SpecRender): the host side of the port mapping is
\* 127.0.0.1 for every gateway.bind other than lan and tailnet.  The bind
\* class custom refutes it.
C20_LoopbackPortMapping ==
    (/\ files # None
     /\ "dockerComposeYml" \in DOMAIN files
     /\ config.gateway.bind \notin {"lan", "tailnet"})
        => PortMappingHost(files.dockerComposeYml) = "127.0.0.1"

\* C17 (under SpecPermissions): every application of setSecurePermissions
\* that follows a completed one leaves the modes the first one left, and
\* verifyPermissions reports no issue after each application; all three
\* catalog levels configure 700/600.
C17_SetTwiceAsOnce ==
    /\ \A level \in SecurityLevel :
          /\ ParseInt8(SECURITY_LEVELS[level].filePermissions.directory) = 448
          /\ ParseInt8(SECURITY_LEVELS[level].filePermissions.config) = 384
    /\ \A i \in 1..Len(applied) :
          /\ (applied[i].verified # None =>
                 applied[i].verified.valid /\ applied[i].verified.issues = <<>>)
          /\ applied[i].disk = applied[1].disk
          /\ (i > 1 => applied[i].before = applied[i].disk)

C17_Witness ==
    /\ Len(applied) = 2
    /\ ~isWin
    /\ applied[1].before.mode = 493
    /\ ".env" \in DOMAIN applied[1].before.files
    /\ applied[1].before.files[".env"] = 420
    /\ applied[1].disk.mode = 448
    /\ applied[1].disk.files[".env"] = 384
    /\ applied[2].disk = applied[1].disk
    /\ applied[1].verified.valid
    /\ applied[2].verified # None
    /\ applied[2].verified.valid

\* strictness orders of the three policy fields
SandboxRank(mode) == CASE mode = "off" -> 0 [] mode = "non-main" -> 1 [] mode = "all" -> 2

MdnsExposure(mode) == CASE mode = "off" -> 0 [] mode = "minimal" -> 1 [] mode = "full" -> 2

RedactionRank(mode) == CASE mode = "none" -> 0 [] mode = "tools" -> 1 [] mode = "all" -> 2

\* the position of a level in the catalog, L1 to L3
LevelIndex(level) == CASE level = "L1" -> 1 [] level = "L2" -> 2 [] level = "L3" -> 3

\* C18 (under SpecAudit): against the level the audit runs with, every
\* catalog level at or above it has a sandbox rank at least as high, an
\* mDNS exposure at most as high and a log redaction at least as high, so
\* the three are monotonic from L1 to L2 to L3.
C18_MonotonicStrictness ==
    \A other \in SecurityLevel :
        LevelIndex(config.securityLevel) <= LevelIndex(other) =>
            LET lo == getSecurityLevel(config.securityLevel)
                hi == getSecurityLevel(other)
            IN  /\ SandboxRank(lo.sandbox.mode) <= SandboxRank(hi.sandbox.mode)
                /\ MdnsExposure(lo.discovery.mdnsMode)
                       >= MdnsExposure(hi.discovery.mdnsMode)
                /\ RedactionRank(lo.logging.redactSensitive)
                       <= RedactionRank(hi.logging.redactSensitive)

C18_Witness ==
    /\ pc = "call_autofix"
    /\ config.securityLevel = "L3"
    /\ report.results[6].check = "sandbox-enabled"
    /\ report.results[6].severity = "pass"
    /\ SandboxRank(getSecurityLevel("L1").sandbox.mode) = 0
    /\ SandboxRank(getSecurityLevel(config.securityLevel).sandbox.mode) = 2
    /\ MdnsExposure(getSecurityLevel(config.securityLevel).discovery.mdnsMode) = 0
    /\ RedactionRank(getSecurityLevel(config.securityLevel).logging.redactSensitive) = 2

\* C23 (under SpecAudit): no result of the report runSecurityAudit returns
\* carries the key fixed, and in the list autoFixAuditResults returns for
\* those results every result with fixed = true has autoFixable = true and
\* a severity other than pass.
C23_FixedOnlyWhenFixable ==
    /\ report # None =>
          \A i \in 1..Len(report.results) : "fixed" \notin DOMAIN report.results[i]
    /\ (outResults # None /\ ~outResults.threw) =>
          \A i \in 1..Len(outResults.results) :
              IsFixed(outResults.results[i]) =>
                  /\ outResults.results[i].autoFixable
                  /\ outResults.results[i].severity # "pass"

C23_Witness ==
    /\ pc = "call_verify"
    /\ report # None
    /\ ~outResults.threw
    /\ IsFixed(outResults.results[6])
    /\ outResults.results[6].severity = "warning"
    /\ outResults.results[6].autoFixable
    /\ ~IsFixed(outResults.results[1])
    /\ outResults.results[1].severity = "pass"
    /\ "fixed" \notin DOMAIN report.results[6]

\* C30 (under SpecAudit): in the report runSecurityAudit returns, every
\* result has autoFixable = true exactly when its severity is not pass.
C30_FixableIffNotPass ==
    report # None =>
        \A i \in 1..Len(report.results) :
            report.results[i].autoFixable <=> (report.results[i].severity # "pass")

C30_Witness ==
    /\ pc = "call_autofix"
    /\ Len(report.results) = 8
    /\ report.results[2].severity = "critical" /\ report.results[2].autoFixable
    /\ report.results[3].severity = "critical" /\ report.results[3].autoFixable
    /\ report.results[4].severity = "critical" /\ report.results[4].autoFixable
    /\ report.results[6].severity = "warning" /\ report.results[6].autoFixable
    /\ report.results[1].severity = "pass" /\ ~report.results[1].autoFixable
    /\ report.results[5].severity = "pass" /\ ~report.results[5].autoFixable

\* reading the permission bits fails: the directory is missing or cannot be
\* listed, or the stat of a config file it lists fails
ReadFails(d) ==
    \/ ~d.exists
    \/ ~CanRead(d)
    \/ \E n \in DOMAIN d.files : IsConfigFile(n) /\ (~CanSearch(d) \/ d.files[n] = Gone)

\* C24 (under SpecHostile): when the audit step runs on a directory whose
\* permission bits cannot be read, verifyPermissions returns valid = false
\* with the failure as its last issue, and runSecurityAudit returns its
\* report of eight results with a critical file-permissions result.
C24_ReadFailureIsCritical ==
    [][(pc = "audit" /\ pc' # "audit" /\ ~isWin /\ ReadFails(disk)) =>
          /\ LET v == verifyPermissions(isWin, disk) IN
             /\ ~v.valid
             /\ Len(v.issues) >= 1
             /\ v.issues[Len(v.issues)][1] = "Failed to verify permissions: "
          /\ pc' = "autofix"
          /\ Len(report'.results) = 8
          /\ report'.results[4].check = "file-permissions"
          /\ report'.results[4].severity = "critical"]_vars

\* the audit ran while openclaw.json was being removed from a directory
\* whose modes were right
C24_Witness ==
    /\ pc = "autofix"
    /\ tampered
    /\ disk.exists
    /\ disk.mode = 448
    /\ DOMAIN disk.files = {".env"}
    /\ "openclaw.json" \in DOMAIN written
    /\ report.results[4].severity = "critical"
    /\ report.results[4].message =
          <<"File permission issues found: ", "Failed to verify permissions: ",
            "ENOENT ", "openclaw.json">>

\* C27 (under Spec): the auto-fix step of runInit leaves the report's
\* overallStatus and the severity of every result as runSecurityAudit
\* returned them, so the status of the final report is still the one
\* computed from the severities before any result was marked fixed.
C27_StatusKeptByAutoFix ==
    [][(pc = "autofix" /\ pc' = "finish") =>
          /\ report'.overallStatus = report.overallStatus
          /\ [i \in 1..Len(report'.results) |-> report'.results[i].severity]
                = [i \in 1..Len(report.results) |-> report.results[i].severity]
          /\ report'.overallStatus = OverallStatus(report'.results)]_vars

\* a finished run whose only critical finding was marked fixed and whose
\* report is critical all the same
C27_Witness ==
    /\ pc = "done"
    /\ "autofix" \in Range(log)
    /\ report.overallStatus = "critical"
    /\ \E i \in 1..Len(report.results) : report.results[i].severity = "critical"
    /\ \A i \in 1..Len(report.results) :
          report.results[i].severity = "critical" => IsFixed(report.results[i])
    /\ result.auditResults = report.results

\* C28 (under SpecHostile): the DeploymentResult of every run that reaches
\* its end has an empty warnings list: each warning of the audit was marked
\* fixed by the auto-fix step that runInit runs whenever a fixable finding
\* exists.
C28_NoWarningsLeft ==
    pc = "done" =>
        /\ result.warnings = <<>>
        /\ \A i \in 1..Len(report.results) :
              report.results[i].severity = "warning" =>
                  /\ report.results[i].autoFixable
                  /\ IsFixed(report.results[i])

\* a finished run whose audit found the sandbox warning and nothing else
C28_Witness ==
    /\ pc = "done"
    /\ result.warnings = <<>>
    /\ report.overallStatus = "warning"
    /\ report.results[6].check = "sandbox-enabled"
    /\ report.results[6].severity = "warning"
    /\ IsFixed(report.results[6])
    /\ report.autoFixedCount = 1

\* C29 (under Spec): a run with --dry-run goes no further than the render
\* step and takes no step after it: it never creates the directory, writes
\* a file, changes a mode, starts a container, waits for a health check or
\* runs the audit or auto-fix.
C29_DryRunStopsAfterRender ==
    [][opts.dryRun =>
          /\ pc # "returned"
          /\ pc' \in {"secrets", "render", "returned"}
          /\ disk' = disk
          /\ written' = NoTexts
          /\ docker' = [start |-> "none", healthy |-> "none"]
          /\ report' = None
          /\ result' = None
          /\ Range(log') \subseteq {"secrets", "render"}]_vars

\* a dry run in docker mode on a host without the install directory: the
\* files are rendered and the directory is still missing
C29_Witness ==
    /\ pc = "returned"
    /\ opts.dryRun
    /\ opts.docker
    /\ files # None
    /\ "dockerComposeYml" \in DOMAIN files
    /\ ~disk.exists
    /\ written = NoTexts
    /\ log = <<"secrets", "render">>

\* the place of a logged stage in the order of runInit's steps
StageRank(stage) ==
    CASE stage = "secrets" -> 1
      [] stage = "render" -> 2
      [] stage = "mkdir" -> 3
      [] stage = "openclaw.json" -> 4
      [] stage = ".env" -> 5
      [] stage = "docker-compose.yml" -> 6
      [] stage = "Caddyfile" -> 7
      [] stage = "chmod" -> 8
      [] stage = "docker_start" -> 9
      [] stage = "health_wait" -> 10
      [] stage = "audit" -> 11
      [] stage = "autofix" -> 12
      [] stage = "success" -> 13
      [] stage = "error" -> 14

\* C22 (under Spec): the stages a run has completed are logged in the order
\* render, writes, permissions, container start, health wait, audit,
\* auto-fix, each at most once; the audit is logged only after the render,
\* the write of every rendered file and the permissions stage, and, in
\* docker mode and only there, after the container start and the health
\* wait; auto-fix only after the audit.
C22_StagesInOrder ==
    /\ \A i, j \in 1..Len(log) : i < j => StageRank(log[i]) < StageRank(log[j])
    /\ "chmod" \in Range(log) =>
          /\ "render" \in Range(log)
          /\ \A name \in FileNames : FileKey[name] \in DOMAIN files => name \in Range(log)
    /\ "audit" \in Range(log) =>
          /\ "chmod" \in Range(log)
          /\ config.deployment.mode = "docker" =>
                {"docker_start", "health_wait"} \subseteq Range(log)
    /\ {"docker_start", "health_wait"} \cap Range(log) # {} =>
          /\ config.deployment.mode = "docker"
          /\ "chmod" \in Range(log)
    /\ "health_wait" \in Range(log) => "docker_start" \in Range(log)
    /\ "autofix" \in Range(log) => "audit" \in Range(log)

\* a finished docker-mode run that went through every stage
C22_Witness ==
    /\ pc = "done"
    /\ log = <<"secrets", "render", "mkdir", "openclaw.json", ".env",
               "docker-compose.yml", "chmod", "docker_start", "health_wait",
               "audit", "autofix", "success">>

\* C25 as stated (under SpecRender): for a catalog level the definition
\* getLevel takes from the fallback table has the fields and the values of
\* the one it takes from the loaded catalog, so the files a call returns are
\* the files rendered from either.  The two tables hold different values
\* for each of L1, L2 and L3: violated by the first call.
C25_FallbackMatchesCatalog ==
    \A i \in 1..Len(calls) :
        config.securityLevel \in SecurityLevel =>
            LET canonical == getLevel(LoadedLevels, config.securityLevel)
                fallback == getLevel(NullLevels, config.securityLevel)
            IN  /\ DOMAIN fallback = DOMAIN canonical
                /\ \A k \in DOMAIN canonical \ {"name"} :
                      DOMAIN fallback[k] = DOMAIN canonical[k]
                /\ fallback = canonical
                /\ calls[i].files = RenderFiles(config, calls[i].secrets, canonical)
                /\ calls[i].files = RenderFiles(config, calls[i].secrets, fallback)

\* what holds of a waitForHealthy call at every moment
WaitInvariant ==
    LET n == Len(wait.checks) IN
    /\ \A i \in 1..n : wait.checks[i].start < wait.deadline
    /\ \A i \in 1..(n - 1) : ~wait.checks[i].healthy
    /\ n <= Max(wait.timeoutMs, 0)
    /\ wait.now <= Max(wait.deadline, 0) + Max(MaxFetch, MaxLate)
    /\ pc # "wait_returned" =>
          /\ wait.returned = "pending"
          /\ \A i \in 1..n : ~wait.checks[i].healthy
    /\ pc = "wait_returned" =>
          /\ wait.returned \in {"true", "false"}
          /\ wait.returned = "true" =>
                /\ n >= 1
                /\ wait.checks[n].healthy
                /\ wait.now = wait.checks[n].end
          /\ wait.returned = "false" =>
                /\ wait.now >= wait.deadline
                /\ \A i \in 1..n : ~wait.checks[i].healthy

\* C26 (under SpecHealth): every waitForHealthy call returns; it starts each
\* health check before the deadline, at most one per tick of the timeout,
\* returns true at the end of the first check that reports healthy and
\* false, with no check healthy, once the clock is at or past the deadline,
\* never later than the deadline plus one health check or one late timer.
C26_BoundedWait == []WaitInvariant /\ <>(pc = "wait_returned")

\* a call that timed out: three checks, none healthy, the last one ending
\* past the deadline
C26_Witness ==
    /\ pc = "wait_returned"
    /\ wait.returned = "false"
    /\ Len(wait.checks) = 3
    /\ wait.now > wait.deadline
    /\ wait.intervalMs > wait.remaining

\* whether the probe fails on the host: its tool or file is not there, or
\* the probe itself throws
ProbeFails(p, h) ==
    CASE p = "docker" -> h.dockerVersion = "rejected"
      [] p = "port" -> findFreePort(h.occupied).rejected
      [] p = "install" -> h.home.homedir = "throws"
      [] p = "wsl" -> h.distroName = "" /\ h.procVersion = "unreadable"
      [] p = "systemd" -> h.systemctl = "rejected"
      [] p = "tailscale" -> h.tailscale = "rejected"

\* the host with the probes of a set made to fail and the rest as it is
WithFailing(S, h) ==
    [h EXCEPT
       !.dockerVersion = IF "docker" \in S THEN "rejected" ELSE @,
       !.occupied = IF "port" \in S THEN StartPort..(StartPort + MAX_ATTEMPTS - 1) ELSE @,
       !.home = IF "install" \in S THEN [homedir |-> "throws", dirs |-> {}, bins |-> {}]
                ELSE @,
       !.distroName = IF "wsl" \in S THEN "" ELSE @,
       !.procVersion = IF "wsl" \in S THEN "unreadable" ELSE @,
       !.systemctl = IF "systemd" \in S THEN "rejected" ELSE @,
       !.tailscale = IF "tailscale" \in S THEN "rejected" ELSE @]

\* the fields of the DetectedEnvironment a probe's value goes into
Contribution(p, e) ==
    CASE p = "docker" -> <<e.dockerAvailable, e.dockerVersion, e.dockerComposeAvailable>>
      [] p = "port" -> <<e.freePort>>
      [] p = "install" -> <<e.existingInstall>>
      [] p = "wsl" -> <<e.isWSL, e.os>>
      [] p = "systemd" -> <<e.hasSystemd>>
      [] p = "tailscale" -> <<e.isTailscaleAvailable>>

\* what a failed probe contributes on a host
ConservativeDefault(p, h) ==
    CASE p = "docker" -> <<FALSE, Undefined, FALSE>>
      [] p = "port" -> <<18789>>
      [] p = "install" -> <<Undefined>>
      [] p = "wsl" -> <<FALSE, detectOS(h.platform)>>
      [] p = "systemd" -> <<FALSE>>
      [] p = "tailscale" -> <<FALSE>>

\* C21 (under SpecDetect): once the six probes have settled, in whatever
\* order, detectEnvironment resolves with a DetectedEnvironment of all
\* thirteen fields; each probe that failed contributes its conservative
\* default, and what each probe contributes is what it contributes on the
\* same host with any set of the other probes failing.
C21_ProbesDegradeAlone ==
    pc = "detect_settled" =>
        /\ ~env.result.rejected
        /\ DOMAIN env.result.value =
              {"os", "dockerAvailable", "dockerVersion", "dockerComposeAvailable",
               "freePort", "shell", "nodeVersion", "existingInstall", "hasSystemd",
               "availableMemoryMB", "cpuCount", "isWSL", "isTailscaleAvailable"}
        /\ \A p \in Probes :
              /\ ProbeFails(p, env.host) =>
                    Contribution(p, env.result.value) = ConservativeDefault(p, env.host)
              /\ \A S \in SUBSET (Probes \ {p}) :
                    LET twin == detectEnvironment(WithFailing(S, env.host)) IN
                    /\ ~twin.rejected
                    /\ Contribution(p, twin.value) = Contribution(p, env.result.value)

\* docker, the port scan and the install lookup failed; WSL, systemd and
\* tailscale were found
C21_Witness ==
    /\ pc = "detect_settled"
    /\ {p \in Probes : ProbeFails(p, env.host)} = {"docker", "port", "install"}
    /\ ~env.result.rejected
    /\ env.result.value.dockerAvailable = FALSE
    /\ env.result.value.freePort = 18789
    /\ env.result.value.existingInstall = Undefined
    /\ env.result.value.isWSL
    /\ env.result.value.os = "windows-wsl"
    /\ env.result.value.hasSystemd
    /\ env.result.value.isTailscaleAvailable

=============================================================================
